---- MODULE Spec2Model ----
(***************************************************************************)
(* Announcement ingestion and relevance-classification pipeline of the     *)
(* FDA / SEC news dashboard: feed time-window filter, public-company       *)
(* filter, select-then-write ingestion, queue-driven batch classification  *)
(* with defensive parsing, validation, fallback and publication gating.    *)
(***************************************************************************)
EXTENDS Integers, Sequences, FiniteSets, TLC

(***************************************************************************)
(* JavaScript values.  Every value is a record tagged by t, so that values *)
(* of different types can sit in one set.  Strings are sequences of        *)
(* one-character strings, so that parseInt, toUpperCase and the UUID       *)
(* regular expression are computed character by character.                 *)
(***************************************************************************)
Undef == [t |-> "undefined"]

Null == [t |-> "null"]

NaN == [t |-> "NaN"]

Num(n) == [t |-> "number", n |-> n]

Str(s) == [t |-> "string", s |-> s]

Bool(b) == [t |-> "boolean", b |-> b]

Arr(a) == [t |-> "array", a |-> a]

Obj(o) == [t |-> "object", o |-> o]

\* ToBoolean: undefined, null, NaN, 0, "" and false are falsy.
Truthy(v) ==
  CASE v.t = "undefined" -> FALSE
    [] v.t = "null" -> FALSE
    [] v.t = "NaN" -> FALSE
    [] v.t = "number" -> v.n # 0
    [] v.t = "string" -> Len(v.s) > 0
    [] v.t = "boolean" -> v.b
    [] OTHER -> TRUE

\* a || b
OrElse(a, b) == IF Truthy(a) THEN a ELSE b

\* Property read v.f.  Reading a property of undefined or null is a TypeError
\* (see Throws); a primitive or an array has none of the fields read here.
Get(v, f) == IF v.t = "object" /\ f \in DOMAIN v.o THEN v.o[f] ELSE Undef

Throws(v) == v.t \in {"undefined", "null"}

Min(a, b) == IF a < b THEN a ELSE b

Max(a, b) == IF a > b THEN a ELSE b

(***************************************************************************)
(* Characters.                                                             *)
(***************************************************************************)
LowerChars == <<"a","b","c","d","e","f","g","h","i","j","k","l","m",
                "n","o","p","q","r","s","t","u","v","w","x","y","z">>

UpperChars == <<"A","B","C","D","E","F","G","H","I","J","K","L","M",
                "N","O","P","Q","R","S","T","U","V","W","X","Y","Z">>

DigitChars == <<"0","1","2","3","4","5","6","7","8","9">>

Range(s) == {s[i] : i \in DOMAIN s}

IndexOf(seq, c) == CHOOSE i \in DOMAIN seq : seq[i] = c

UpperChar(c) == IF c \in Range(LowerChars) THEN UpperChars[IndexOf(LowerChars, c)] ELSE c

LowerChar(c) == IF c \in Range(UpperChars) THEN LowerChars[IndexOf(UpperChars, c)] ELSE c

\* String.prototype.toUpperCase / toLowerCase
toUpperCase(s) == [i \in DOMAIN s |-> UpperChar(s[i])]

toLowerCase(s) == [i \in DOMAIN s |-> LowerChar(s[i])]

IsDigit(c) == c \in Range(DigitChars)

DigitVal(c) == IndexOf(DigitChars, c) - 1

IsSpace(c) == c \in {" ", "\t", "\n"}

IsHex(c) == IsDigit(c) \/ LowerChar(c) \in {"a","b","c","d","e","f"}

RECURSIVE SkipSpaces(_, _)
SkipSpaces(s, i) == IF i <= Len(s) /\ IsSpace(s[i]) THEN SkipSpaces(s, i + 1) ELSE i

RECURSIVE ReadDigits(_, _, _)
\* the value of the longest run of decimal digits of s starting at i, after acc
ReadDigits(s, i, acc) ==
  IF i <= Len(s) /\ IsDigit(s[i]) THEN ReadDigits(s, i + 1, acc * 10 + DigitVal(s[i])) ELSE acc

\* parseInt of a string: leading white space, an optional sign, then the longest
\* prefix of decimal digits; NaN when there is no digit.
ParseIntStr(s) ==
  LET i == SkipSpaces(s, 1)
      neg == i <= Len(s) /\ s[i] = "-"
      j == IF i <= Len(s) /\ s[i] \in {"-", "+"} THEN i + 1 ELSE i
  IN IF j <= Len(s) /\ IsDigit(s[j])
       THEN Num(IF neg THEN 0 - ReadDigits(s, j, 0) ELSE ReadDigits(s, j, 0))
       ELSE NaN

\* parseInt(v): v is converted to a string first; numbers here are integers, so
\* a number parses to itself; undefined, null, booleans, arrays of no digit and
\* objects give NaN.
parseInt(v) ==
  CASE v.t = "number" -> v
    [] v.t = "string" -> ParseIntStr(v.s)
    [] OTHER -> NaN

RECURSIVE DigitsOf(_)
DigitsOf(n) == IF n < 10 THEN <<DigitChars[n + 1]>> ELSE DigitsOf(n \div 10) \o <<DigitChars[(n % 10) + 1]>>

\* String(v) for the values a JSON document can hold in a tag or an id
JSString(v) ==
  CASE v.t = "string" -> v.s
    [] v.t = "number" -> IF v.n < 0 THEN <<"-">> \o DigitsOf(0 - v.n) ELSE DigitsOf(v.n)
    [] v.t = "null" -> <<"n","u","l","l">>
    [] v.t = "undefined" -> <<"u","n","d","e","f","i","n","e","d">>
    [] v.t = "boolean" -> IF v.b THEN <<"t","r","u","e">> ELSE <<"f","a","l","s","e">>
    [] v.t = "NaN" -> <<"N","a","N">>
    [] OTHER -> <<"[","o","b","j","e","c","t"," ","O","b","j","e","c","t","]">>

RECURSIVE ReplaceSpaces(_, _)
\* s.replace(/\s+/g, '_') from position i on: each run of white space becomes one '_'
ReplaceSpaces(s, i) ==
  IF i > Len(s) THEN <<>>
  ELSE IF IsSpace(s[i]) THEN <<"_">> \o ReplaceSpaces(s, SkipSpaces(s, i))
  ELSE <<s[i]>> \o ReplaceSpaces(s, i + 1)

\* /^[0-9a-f]{8}-[0-9a-f]{4}-[0-9a-f]{4}-[0-9a-f]{4}-[0-9a-f]{12}$/i
uuidRegexTest(s) ==
  /\ Len(s) = 36
  /\ \A i \in 1..36 : IF i \in {9, 14, 19, 24} THEN s[i] = "-" ELSE IsHex(s[i])


(***************************************************************************)
(* The text of a model response, as a sequence of tokens: the brackets and *)
(* braces the regular expressions and JSON.parse see, literals, member     *)
(* names, code fences and words of prose.                                  *)
(***************************************************************************)
LB == [k |-> "["]

RB == [k |-> "]"]

LC == [k |-> "{"]

RC == [k |-> "}"]

Comma == [k |-> ","]

Lit(v) == [k |-> "lit", v |-> v]

Key(name) == [k |-> "key", name |-> name]

\* the opening code fence with its language tag, and a bare code fence
FenceJson == [k |-> "fence_json"]

Fence == [k |-> "fence"]

Word == [k |-> "word"]

\* response.replace(<fence_json or fence>, '').trim(): every code fence is removed
StripFences(text) == SelectSeq(text, LAMBDA tok : tok.k \notin {"fence_json", "fence"})

\* cleanResponse.match(/\[[\s\S]*\]/): greedy, from the first '[' to the last
\* ']' after it; <<>> stands for no match (null)
MatchArray(text) ==
  LET opens == {i \in DOMAIN text : text[i].k = "["}
  IN IF opens = {} THEN <<>>
     ELSE LET first == CHOOSE i \in opens : \A j \in opens : i <= j
              closes == {i \in DOMAIN text : text[i].k = "]" /\ i > first}
          IN IF closes = {} THEN <<>>
             ELSE SubSeq(text, first, CHOOSE i \in closes : \A j \in closes : j <= i)

Fail == [ok |-> FALSE]

RECURSIVE ParseValue(_, _), ParseElements(_, _, _), ParseMembers(_, _, _)
\* one JSON value starting at token i: [ok, v, next]
ParseValue(toks, i) ==
  IF i > Len(toks) THEN Fail
  ELSE CASE toks[i].k = "lit" -> [ok |-> TRUE, v |-> toks[i].v, next |-> i + 1]
         [] toks[i].k = "[" ->
              IF i + 1 <= Len(toks) /\ toks[i + 1].k = "]"
                THEN [ok |-> TRUE, v |-> Arr(<<>>), next |-> i + 2]
                ELSE ParseElements(toks, i + 1, <<>>)
         [] toks[i].k = "{" ->
              IF i + 1 <= Len(toks) /\ toks[i + 1].k = "}"
                THEN [ok |-> TRUE, v |-> Obj(<<>>), next |-> i + 2]
                ELSE ParseMembers(toks, i + 1, <<>>)
         [] OTHER -> Fail

\* the elements of an array, the '[' already read, up to its ']'
ParseElements(toks, i, acc) ==
  LET r == ParseValue(toks, i)
  IN IF ~r.ok \/ r.next > Len(toks) THEN Fail
     ELSE CASE toks[r.next].k = "]" -> [ok |-> TRUE, v |-> Arr(Append(acc, r.v)), next |-> r.next + 1]
            [] toks[r.next].k = "," -> ParseElements(toks, r.next + 1, Append(acc, r.v))
            [] OTHER -> Fail

\* the members of an object, the '{' already read, up to its '}'; a repeated
\* name keeps its last value
ParseMembers(toks, i, acc) ==
  IF i > Len(toks) \/ toks[i].k # "key" THEN Fail
  ELSE LET r == ParseValue(toks, i + 1)
           o == (toks[i].name :> r.v) @@ acc
       IN IF ~r.ok \/ r.next > Len(toks) THEN Fail
          ELSE CASE toks[r.next].k = "}" -> [ok |-> TRUE, v |-> Obj(o), next |-> r.next + 1]
                 [] toks[r.next].k = "," -> ParseMembers(toks, r.next + 1, o)
                 [] OTHER -> Fail

\* JSON.parse: the whole text must be one value; otherwise a SyntaxError
JSONparse(toks) ==
  LET r == ParseValue(toks, 1)
  IN IF r.ok /\ r.next = Len(toks) + 1 THEN [ok |-> TRUE, v |-> r.v] ELSE Fail

RECURSIVE Serialize(_), SerializeElements(_, _), SerializeMembers(_, _)
\* the JSON text of a value (what a well-behaved model writes)
Serialize(v) ==
  CASE v.t = "array" -> <<LB>> \o SerializeElements(v.a, 1) \o <<RB>>
    [] v.t = "object" -> <<LC>> \o SerializeMembers(v.o, DOMAIN v.o) \o <<RC>>
    [] OTHER -> <<Lit(v)>>

SerializeElements(a, i) ==
  IF i > Len(a) THEN <<>>
  ELSE Serialize(a[i]) \o (IF i < Len(a) THEN <<Comma>> ELSE <<>>) \o SerializeElements(a, i + 1)

SerializeMembers(o, names) ==
  IF names = {} THEN <<>>
  ELSE LET n == CHOOSE x \in names : TRUE
       IN <<Key(n)>> \o Serialize(o[n])
            \o (IF names # {n} THEN <<Comma>> ELSE <<>>) \o SerializeMembers(o, names \ {n})

(***************************************************************************)
(* String literals, as character sequences: L.high is the string 'high'.   *)
(***************************************************************************)
L ==
  [ high |-> <<"h","i","g","h">>,
    medium |-> <<"m","e","d","i","u","m">>,
    low |-> <<"l","o","w">>,
    bullish |-> <<"b","u","l","l","i","s","h">>,
    bearish |-> <<"b","e","a","r","i","s","h">>,
    neutral |-> <<"n","e","u","t","r","a","l">>,
    drug_approval |-> <<"d","r","u","g","_","a","p","p","r","o","v","a","l">>,
    safety_alert |-> <<"s","a","f","e","t","y","_","a","l","e","r","t">>,
    device_approval |-> <<"d","e","v","i","c","e","_","a","p","p","r","o","v","a","l">>,
    regulatory |-> <<"r","e","g","u","l","a","t","o","r","y">>,
    fda |-> <<"f","d","a">>,
    sec |-> <<"s","e","c">>,
    merger_acquisition |-> <<"m","e","r","g","e","r","_","a","c","q","u","i","s","i","t","i","o","n">>,
    leadership_change |-> <<"l","e","a","d","e","r","s","h","i","p","_","c","h","a","n","g","e">>,
    major_event |-> <<"m","a","j","o","r","_","e","v","e","n","t">>,
    insider_trading |-> <<"i","n","s","i","d","e","r","_","t","r","a","d","i","n","g">>,
    stock_offering |-> <<"s","t","o","c","k","_","o","f","f","e","r","i","n","g">>,
    quarterly_report |-> <<"q","u","a","r","t","e","r","l","y","_","r","e","p","o","r","t">>,
    annual_report |-> <<"a","n","n","u","a","l","_","r","e","p","o","r","t">>,
    proxy_statement |-> <<"p","r","o","x","y","_","s","t","a","t","e","m","e","n","t">>,
    other_filing |-> <<"o","t","h","e","r","_","f","i","l","i","n","g">>,
    null_word |-> <<"n","u","l","l">>,
    critical |-> <<"c","r","i","t","i","c","a","l">>,
    HIGH |-> <<"H","I","G","H">>,
    nasdaq |-> <<"n","a","s","d","a","q">>,
    lse |-> <<"l","s","e">>,
    abc |-> <<"a","b","c">>,
    n85 |-> <<"8","5">>,
    n150 |-> <<"1","5","0">>,
    m20 |-> <<"-","2","0">>,
    n12abc |-> <<"1","2","a","b","c">>,
    form_8k |-> <<"8","-","K">>,
    form_4 |-> <<"4">>,
    form_10q |-> <<"1","0","-","Q">>,
    form_unknown |-> <<"U","N","K","N","O","W","N">>,
    aapl |-> <<"a","a","p","l">>,
    big_pharma |-> <<"B","i","g"," ","P","h","a","r","m","a">>,
    fda_announcement |-> <<"F","D","A"," ","A","n","n","o","u","n","c","e","m","e","n","t">>,
    sec_filing |-> <<"S","E","C"," ","F","i","l","i","n","g">>,
    n1 |-> <<"1">>,
    n40 |-> <<"4","0">>,
    n50 |-> <<"5","0">>,
    NYSE |-> <<"N","Y","S","E">>,
    NASDAQ |-> <<"N","A","S","D","A","Q">>,
    OTC |-> <<"O","T","C">>,
    AMEX |-> <<"A","M","E","X">>,
    two_words |-> <<"f","d","a"," "," ","a","p","p","r","o","v","a","l">> ]

PriorityLevels == {L.high, L.medium, L.low}

Sentiments == {L.bullish, L.bearish, L.neutral}

(***************************************************************************)
(* The relevance classifier's pure part.  An announcement is the joined    *)
(* fda_announcements / sec_filings row of a queue item.  The two bounded   *)
(* text fields of a result (ai_summary, market_impact_assessment) carry no *)
(* decision and are left out of the result records.                        *)
(***************************************************************************)
\* fallbackScores[announcement_type] || 50 and its companions
\* a bug getFallbackAnalysis could have: a default score below the publication
\* threshold
getFallbackAnalysis_low(announcement) ==
  LET type == announcement.announcement_type
      known == type \in {L.drug_approval, L.safety_alert, L.device_approval}
  IN [ fda_announcement_id |-> Str(announcement.id),
       stock_ticker |-> Null,
       stock_exchange |-> Null,
       relevance_score |-> CASE type = L.drug_approval -> 75
                             [] type = L.safety_alert -> 80
                             [] type = L.device_approval -> 60
                             [] OTHER -> 45,
       priority_level |-> IF type \in {L.drug_approval, L.safety_alert} THEN L.high ELSE L.medium,
       sentiment |-> CASE type \in {L.drug_approval, L.device_approval} -> L.bullish
                       [] type = L.safety_alert -> L.bearish
                       [] OTHER -> L.neutral,
       sentiment_strength |-> CASE type = L.drug_approval -> 70
                                [] type = L.safety_alert -> 75
                                [] type = L.device_approval -> 60
                                [] OTHER -> 50,
       tags |-> <<type, L.fda, L.regulatory>> ]

getFallbackAnalysis(announcement) ==
  LET type == announcement.announcement_type
      fallbackScores == CASE type = L.drug_approval -> 75
                          [] type = L.safety_alert -> 80
                          [] type = L.device_approval -> 60
                          [] OTHER -> 50
      fallbackPriority == CASE type = L.drug_approval -> L.high
                            [] type = L.safety_alert -> L.high
                            [] type = L.device_approval -> L.medium
                            [] OTHER -> L.medium
      sentimentData == CASE type = L.drug_approval -> [sentiment |-> L.bullish, strength |-> 70]
                         [] type = L.safety_alert -> [sentiment |-> L.bearish, strength |-> 75]
                         [] type = L.device_approval -> [sentiment |-> L.bullish, strength |-> 60]
                         [] OTHER -> [sentiment |-> L.neutral, strength |-> 50]
  IN [ fda_announcement_id |-> Str(announcement.id),
       stock_ticker |-> Null,
       stock_exchange |-> Null,
       relevance_score |-> fallbackScores,
       priority_level |-> fallbackPriority,
       sentiment |-> sentimentData.sentiment,
       sentiment_strength |-> sentimentData.strength,
       tags |-> <<type, L.fda, L.regulatory>> ]

\* a bug getSECFallbackAnalysis could have: no rows for major_event and
\* insider_trading, which then take the default
getSECFallbackAnalysis_short(filing) ==
  LET type == filing.filing_type
  IN [ sec_filing_id |-> Str(filing.id),
       stock_ticker |-> OrElse(filing.ticker, Null),
       stock_exchange |-> Null,
       relevance_score |-> CASE type = L.merger_acquisition -> 90
                             [] type = L.stock_offering -> 85
                             [] type = L.quarterly_report -> 60
                             [] type = L.annual_report -> 65
                             [] OTHER -> 50,
       priority_level |-> OrElse(filing.priority, Str(L.medium)).s,
       sentiment |-> CASE type = L.merger_acquisition -> L.bullish
                       [] type = L.stock_offering -> L.bearish
                       [] OTHER -> L.neutral,
       sentiment_strength |-> CASE type = L.merger_acquisition -> 80
                                [] type = L.stock_offering -> 75
                                [] OTHER -> 50,
       tags |-> <<type, L.sec, toLowerCase(filing.form_type)>> ]

getSECFallbackAnalysis(filing) ==
  LET type == filing.filing_type
      fallbackScores == CASE type = L.merger_acquisition -> 90
                          [] type = L.major_event -> 80
                          [] type = L.insider_trading -> 75
                          [] type = L.stock_offering -> 85
                          [] type = L.quarterly_report -> 60
                          [] type = L.annual_report -> 65
                          [] OTHER -> 50
      sentimentData == CASE type = L.merger_acquisition -> [sentiment |-> L.bullish, strength |-> 80]
                         [] type = L.major_event -> [sentiment |-> L.neutral, strength |-> 50]
                         [] type = L.insider_trading -> [sentiment |-> L.neutral, strength |-> 60]
                         [] type = L.stock_offering -> [sentiment |-> L.bearish, strength |-> 75]
                         [] type = L.quarterly_report -> [sentiment |-> L.neutral, strength |-> 50]
                         [] type = L.annual_report -> [sentiment |-> L.neutral, strength |-> 50]
                         [] OTHER -> [sentiment |-> L.neutral, strength |-> 50]
  IN [ sec_filing_id |-> Str(filing.id),
       stock_ticker |-> OrElse(filing.ticker, Null),
       stock_exchange |-> Null,
       relevance_score |-> fallbackScores,
       priority_level |-> OrElse(filing.priority, Str(L.medium)).s,
       sentiment |-> sentimentData.sentiment,
       sentiment_strength |-> sentimentData.strength,
       tags |-> <<type, L.sec, toLowerCase(filing.form_type)>> ]


\* a bug ClampScore could have: the Math.max / Math.min clamp left out
ClampScore_unclamped(x, dflt) == OrElse(parseInt(x), Num(dflt)).n

\* Math.max(0, Math.min(100, parseInt(x) || dflt))
ClampScore(x, dflt) == Max(0, Min(100, OrElse(parseInt(x), Num(dflt)).n))

\* x && typeof x === 'string' [&& x !== 'null'] ? x.toUpperCase() : null
UpperOrNull(x, rejectNullWord) ==
  IF Truthy(x) /\ x.t = "string" /\ ~(rejectNullWord /\ x.s = L.null_word)
    THEN Str(toUpperCase(x.s)) ELSE Null

\* [...].includes(x) ? x : dflt
OneOf(x, allowed, dflt) == IF x.t = "string" /\ x.s \in allowed THEN x.s ELSE dflt

\* Array.isArray(tags) ? tags.slice(0, 5).map(tag => String(tag).toLowerCase().replace(/\s+/g, '_')) : dflt
CleanTags(tags, dflt) ==
  IF tags.t = "array"
    THEN [i \in 1..Min(5, Len(tags.a)) |-> ReplaceSpaces(toLowerCase(JSString(tags.a[i])), 1)]
    ELSE dflt

\* the echoed id, replaced by the known id when it is falsy or fails the UUID format
CleanId(echoed, known) ==
  LET id == OrElse(echoed, Str(known))
  IN IF uuidRegexTest(JSString(id)) THEN id ELSE Str(known)

\* validateAndCleanAnalysis(analysis, queueItem): threw when analysis is null
\* or undefined (a property read of it is a TypeError)
validateAndCleanAnalysis(analysis, announcement) ==
  IF Throws(analysis) THEN [threw |-> TRUE]
  ELSE [ threw |-> FALSE,
         v |-> [ fda_announcement_id |-> CleanId(Get(analysis, "fda_announcement_id"), announcement.id),
                 stock_ticker |-> UpperOrNull(Get(analysis, "stock_ticker"), TRUE),
                 stock_exchange |-> UpperOrNull(Get(analysis, "stock_exchange"), FALSE),
                 relevance_score |-> ClampScore(Get(analysis, "relevance_score"), 0),
                 priority_level |-> OneOf(Get(analysis, "priority_level"), PriorityLevels, L.medium),
                 sentiment |-> OneOf(Get(analysis, "sentiment"), Sentiments, L.neutral),
                 sentiment_strength |-> ClampScore(Get(analysis, "sentiment_strength"), 50),
                 tags |-> CleanTags(Get(analysis, "tags"),
                                    <<announcement.announcement_type, L.fda, L.regulatory>>) ] ]

validateAndCleanSECAnalysis(analysis, filing) ==
  IF Throws(analysis) THEN [threw |-> TRUE]
  ELSE [ threw |-> FALSE,
         v |-> [ sec_filing_id |-> CleanId(Get(analysis, "sec_filing_id"), filing.id),
                 stock_ticker |-> UpperOrNull(Get(analysis, "stock_ticker"), TRUE),
                 stock_exchange |-> UpperOrNull(Get(analysis, "stock_exchange"), FALSE),
                 relevance_score |-> ClampScore(Get(analysis, "relevance_score"), 0),
                 priority_level |-> OneOf(Get(analysis, "priority_level"), PriorityLevels, L.medium),
                 sentiment |-> OneOf(Get(analysis, "sentiment"), Sentiments, L.neutral),
                 sentiment_strength |-> ClampScore(Get(analysis, "sentiment_strength"), 50),
                 tags |-> CleanTags(Get(analysis, "tags"),
                                    <<filing.filing_type, L.sec, toLowerCase(filing.form_type)>>) ] ]

\* A result object as the JavaScript value it is when it is pushed into the
\* parsed array (the padding of a short response).
AsJS(result) ==
  Obj([f \in DOMAIN result |->
        CASE f \in {"relevance_score", "sentiment_strength"} -> Num(result[f])
          [] f \in {"priority_level", "sentiment"} -> Str(result[f])
          [] f = "tags" -> Arr([i \in DOMAIN result[f] |-> Str(result[f][i])])
          [] OTHER -> result[f]])

\* A model response: the call throws, or it returns a text.
Thrown == [kind |-> "throw"]

Text(toks) == [kind |-> "text", text |-> toks]


\* a bug padAnalyses could have: a short array left as it is
padAnalyses_none(analysisArray, fallbacks) == analysisArray

\* while (analysisArray.length < batchItems.length) analysisArray.push(fallback of
\* the missing index): fallbacks[i] is the fallback of item i
padAnalyses(analysisArray, fallbacks) ==
  [i \in 1..Max(Len(fallbacks), Len(analysisArray)) |->
     IF i <= Len(analysisArray) THEN analysisArray[i] ELSE AsJS(fallbacks[i])]

\* The body both batch analyzers share: clean the text, extract and parse the
\* array, reject a non-array, pad a short array with fallbacks, cut a long one,
\* validate each element; any exception on the way gives the fallback of every
\* item.
BatchAnalyze(batchItems, response, route) ==
  LET n == Len(batchItems)
      allFallback == [i \in 1..n |->
                       IF route = "fda" THEN getFallbackAnalysis(batchItems[i])
                       ELSE getSECFallbackAnalysis(batchItems[i])]
  IN IF response.kind = "throw" THEN allFallback
     ELSE LET cleanResponse == StripFences(response.text)
              jsonMatch == MatchArray(cleanResponse)
              jsonString == IF jsonMatch # <<>> THEN jsonMatch ELSE cleanResponse
              parsed == JSONparse(jsonString)
          IN IF ~parsed.ok THEN allFallback
             ELSE IF parsed.v.t # "array" THEN allFallback
             ELSE LET analysisArray == padAnalyses(parsed.v.a, allFallback)
                      m == Min(n, Len(analysisArray))
                      validated == [i \in 1..m |->
                                     IF route = "fda"
                                       THEN validateAndCleanAnalysis(analysisArray[i], batchItems[i])
                                       ELSE validateAndCleanSECAnalysis(analysisArray[i], batchItems[i])]
                  IN IF \E i \in 1..m : validated[i].threw THEN allFallback
                     ELSE [i \in 1..m |-> validated[i].v]

batchAnalyzeWithClaude(batchItems, response) ==
  BatchAnalyze(batchItems, response, "fda")

batchAnalyzeSECWithClaude(batchItems, response) ==
  BatchAnalyze(batchItems, response, "sec")

(***************************************************************************)
(* The time-window filter.  An instant is a number of minutes since the    *)
(* epoch (new Date(0)); the calendar is that of a fixed-offset time zone   *)
(* with years of 365 days.                                                 *)
(***************************************************************************)
DaysInMonth == <<31, 28, 31, 30, 31, 30, 31, 31, 30, 31, 30, 31>>

RECURSIVE DaysBefore(_)
\* days of the year before month m (0-based month index, as getMonth)
DaysBefore(m) == IF m = 0 THEN 0 ELSE DaysBefore(m - 1) + DaysInMonth[m]

\* the calendar fields of an instant
Fields(t) ==
  LET day == t \div 1440
      doy == day % 365
      month == CHOOSE m \in 0..11 : DaysBefore(m) <= doy /\ doy < DaysBefore(m) + DaysInMonth[m + 1]
  IN [year |-> day \div 365, month |-> month, date |-> doy - DaysBefore(month) + 1,
      minutes |-> t % 1440]

\* d.setHours(d.getHours() - h)
setHoursBack(t, h) == t - 60 * h

\* d.setMinutes(d.getMinutes() - m)
setMinutesBack(t, m) == t - m

\* d.setDate(d.getDate() - n)
setDateBack(t, n) == t - n * 1440

\* d.setMonth(d.getMonth() - n): the same day of the month n months earlier; a
\* day the target month does not have runs over into the following month
setMonthBack(t, n) ==
  LET f == Fields(t)
      months == f.year * 12 + f.month - n
  IN ((months \div 12) * 365 + DaysBefore(months % 12) + f.date - 1) * 1440
       + f.minutes

\* calculateTimeframe of the FDA feed route
calculateTimeframe(timeframe, now) ==
  CASE timeframe = "24h" -> setHoursBack(now, 24)
    [] timeframe = "1w" -> setDateBack(now, 7)
    [] timeframe = "1m" -> setMonthBack(now, 1)
    [] OTHER -> setHoursBack(now, 24)


\* a bug the SEC feed route's calculateTimeframe could have: the default branch
\* of the FDA route
calculateTimeframeSEC_default24h(timeframe, now) ==
  CASE timeframe = "1min" -> setMinutesBack(now, 1)
    [] timeframe = "10min" -> setMinutesBack(now, 10)
    [] timeframe = "1h" -> setHoursBack(now, 1)
    [] OTHER -> setHoursBack(now, 24)

\* calculateTimeframe of the SEC feed route
calculateTimeframeSEC(timeframe, now) ==
  CASE timeframe = "1min" -> setMinutesBack(now, 1)
    [] timeframe = "10min" -> setMinutesBack(now, 10)
    [] timeframe = "1h" -> setHoursBack(now, 1)
    [] OTHER -> setHoursBack(now, 1)

NoCutoff == -1

\* calculateTimeframeCutoff of the news route; NoCutoff stands for null
calculateTimeframeCutoff(timeframe, now) ==
  CASE timeframe = "24h" -> setHoursBack(now, 24)
    [] timeframe = "1w" -> setDateBack(now, 7)
    [] timeframe = "1m" -> setMonthBack(now, 1)
    [] timeframe = "all" -> NoCutoff
    [] OTHER -> setHoursBack(now, 24)

\* calculateTimeframe of the news route's other version
calculateTimeframeNews(timeframe, now) ==
  CASE timeframe = "24h" -> setHoursBack(now, 24)
    [] timeframe = "1w" -> setDateBack(now, 7)
    [] timeframe = "1m" -> setMonthBack(now, 1)
    [] timeframe = "3m" -> setMonthBack(now, 3)
    [] OTHER -> setHoursBack(now, 24)

\* searchParams.get('timeframe') || dflt: a missing or empty parameter takes the default
ParamOr(param, dflt) == IF param = "" THEN dflt ELSE param

\* A feed entry's date field: missing, unparseable, or an instant.
NoDate == [k |-> "missing"]

BadDate == [k |-> "invalid"]

At(t) == [k |-> "date", t |-> t]


\* a bug IsRecent could have: >= in place of >
IsRecent_inclusive(field, cutoffTime) ==
  CASE field.k = "missing" -> 0 >= cutoffTime
    [] field.k = "invalid" -> FALSE
    [] OTHER -> field.t >= cutoffTime

\* new Date(field?.[0] || 0) > cutoffTime: a missing field is the epoch, an
\* Invalid Date compares false
IsRecent(field, cutoffTime) ==
  CASE field.k = "missing" -> 0 > cutoffTime
    [] field.k = "invalid" -> FALSE
    [] OTHER -> field.t > cutoffTime

\* items.filter(item => new Date(item.pubDate?.[0] || 0) > cutoffTime): the
\* positions of the retained entries, in feed order
recentItems(items, cutoffTime) ==
  SelectSeq([i \in DOMAIN items |-> i], LAMBDA i : IsRecent(items[i], cutoffTime))

\* calculateTimeframe of the SEC news route
calculateTimeframeSECNews(timeframe, now) ==
  CASE timeframe = "1min" -> setMinutesBack(now, 1)
    [] timeframe = "10min" -> setMinutesBack(now, 10)
    [] timeframe = "1h" -> setHoursBack(now, 1)
    [] timeframe = "6h" -> setHoursBack(now, 6)
    [] timeframe = "24h" -> setHoursBack(now, 24)
    [] OTHER -> setHoursBack(now, 1)

\* the timeframeHours table of the news route's first version; 0 stands for a
\* token the table does not have (undefined)
timeframeHours(timeframe) ==
  CASE timeframe = "1h" -> 1
    [] timeframe = "24h" -> 24
    [] timeframe = "3d" -> 72
    [] timeframe = "1w" -> 168
    [] OTHER -> 0

\* if (timeframeHours[timeframe]) { hoursAgo = now - hours; query.gte(...) }
cutoffFirstNews(timeframe, now) ==
  IF timeframeHours(timeframe) # 0 THEN setHoursBack(now, timeframeHours(timeframe))
  ELSE NoCutoff

\* query.gte('published_at', cutoff): the positions of the rows the query
\* returns; with no cutoff the filter is not applied
rowsSince(rows, cutoffTime) ==
  SelectSeq([i \in DOMAIN rows |-> i],
            LAMBDA i : cutoffTime = NoCutoff \/ (rows[i].k = "date" /\ rows[i].t >= cutoffTime))

(***************************************************************************)
(* SEC filing categorisation (the subtype and priority a filing row has).  *)
(***************************************************************************)
\* s.includes(sub)
Includes(s, sub) == \E i \in 1..(Len(s) - Len(sub) + 1) : SubSeq(s, i, i + Len(sub) - 1) = sub

categorizeFilingType(formType, content) ==
  LET form == toLowerCase(formType)
      text == toLowerCase(content)
  IN IF Len(formType) = 0 THEN L.other_filing
     ELSE IF Includes(form, <<"8","-","k">>)
       THEN (IF Includes(text, <<"m","e","r","g","e","r">>)
                 \/ Includes(text, <<"a","c","q","u","i","s","i","t","i","o","n">>)
               THEN L.merger_acquisition
             ELSE IF Includes(text, <<"c","e","o">>) \/ Includes(text, <<"c","f","o">>)
                       \/ Includes(text, <<"l","e","a","d","e","r","s","h","i","p">>)
               THEN L.leadership_change
             ELSE L.major_event)
     ELSE IF Includes(form, <<"4">>) THEN L.insider_trading
     ELSE IF Includes(form, <<"s","-","1">>) \/ Includes(form, <<"s","-","3">>) THEN L.stock_offering
     ELSE IF Includes(form, <<"1","0","-","q">>) THEN L.quarterly_report
     ELSE IF Includes(form, <<"1","0","-","k">>) THEN L.annual_report
     ELSE IF Includes(form, <<"d","e","f"," ","1","4","a">>) \/ Includes(form, <<"p","r","o","x","y">>)
       THEN L.proxy_statement
     ELSE L.other_filing

determinePriority(formType, filingType) ==
  LET form == toLowerCase(formType)
  IN IF \/ Includes(form, <<"8","-","k">>)
        \/ Includes(form, <<"4">>)
        \/ Includes(form, <<"s","-","1">>)
        \/ Includes(form, <<"s","-","3">>)
        \/ filingType \in {L.merger_acquisition, L.leadership_change, L.insider_trading, L.stock_offering}
       THEN L.high
     ELSE IF \/ Includes(form, <<"1","0","-","q">>)
             \/ Includes(form, <<"1","0","-","k">>)
             \/ filingType \in {L.quarterly_report, L.annual_report}
       THEN L.medium
     ELSE L.low

(***************************************************************************)
(* The public-company filter.                                              *)
(***************************************************************************)
\* x && x !== 'null' ? x.toUpperCase() : null; threw when x is truthy and no string
TickerOf(x) ==
  IF ~Truthy(x) \/ (x.t = "string" /\ x.s = L.null_word) THEN [threw |-> FALSE, v |-> Null]
  ELSE IF x.t = "string" THEN [threw |-> FALSE, v |-> Str(toUpperCase(x.s))]
  ELSE [threw |-> TRUE]

\* Boolean(x)
ToBoolean(x) == Truthy(x)

\* aiFilterCompanyBatch: the model's verdicts, one per returned element; any
\* exception (a failed call, unparseable text, a value without map, a null
\* element, a ticker that is no string) gives the blanket fallback: every company
\* of the batch public.  idField is 'fda_id' or 'sec_id'.
AiFilterCompanyBatch(companyBatch, response, idField) ==
  LET fallback == [i \in DOMAIN companyBatch |->
                     [id |-> Str(companyBatch[i].id), is_public |-> TRUE,
                      ticker |-> IF idField = "sec_id" THEN OrElse(companyBatch[i].ticker, Null) ELSE Null,
                      exchange |-> Null]]
  IN IF response.kind = "throw" THEN fallback
     ELSE LET cleanResponse == StripFences(response.text)
              jsonMatch == MatchArray(cleanResponse)
              parsed == JSONparse(IF jsonMatch # <<>> THEN jsonMatch ELSE cleanResponse)
          IN IF ~parsed.ok THEN fallback
             ELSE IF parsed.v.t # "array" THEN fallback
             ELSE LET results == parsed.v.a
                      threw == \E i \in DOMAIN results :
                                 \/ Throws(results[i])
                                 \/ TickerOf(Get(results[i], "ticker")).threw
                                 \/ TickerOf(Get(results[i], "exchange")).threw
                  IN IF threw THEN fallback
                     ELSE [i \in DOMAIN results |->
                            [id |-> OrElse(Get(results[i], idField),
                                           IF i <= Len(companyBatch) THEN Str(companyBatch[i].id) ELSE Undef),
                             is_public |-> ToBoolean(Get(results[i], "is_public")),
                             ticker |-> TickerOf(Get(results[i], "ticker")).v,
                             exchange |-> TickerOf(Get(results[i], "exchange")).v]]

aiFilterCompanyBatch(companyBatch, response) == AiFilterCompanyBatch(companyBatch, response, "fda_id")

aiFilterSECCompanyBatch(companyBatch, response) == AiFilterCompanyBatch(companyBatch, response, "sec_id")

\* batchSize of filterPublicCompanies
FilterBatchSize == 15

RECURSIVE FilterBatches(_, _, _, _)
\* the for loop over slices of FilterBatchSize companies, responses[b] being the
\* model's response to slice b
FilterBatches(companiesToCheck, responses, b, idField) ==
  LET from == (b - 1) * FilterBatchSize + 1
      to == Min(b * FilterBatchSize, Len(companiesToCheck))
  IN IF from > Len(companiesToCheck) THEN <<>>
     ELSE AiFilterCompanyBatch(SubSeq(companiesToCheck, from, to), responses[b], idField)
            \o FilterBatches(companiesToCheck, responses, b + 1, idField)

\* all verdicts of one filterPublicCompanies call
filteredCompanies(rssData, responses, idField) ==
  LET companiesToCheck == SelectSeq(rssData, LAMBDA item : Truthy(item.company))
  IN FilterBatches(companiesToCheck, responses, 1, idField)


\* a bug filterPublicCompanies could have: the map built from every verdict,
\* the .filter(result => result.is_public) left out
filterPublicCompanies_anyVerdict(rssData, responses, idField) ==
  LET verdicts == filteredCompanies(rssData, responses, idField)
      companyMap == {verdicts[i].id : i \in DOMAIN verdicts}
  IN SelectSeq(rssData, LAMBDA item : Str(item.id) \in companyMap)

\* filterPublicCompanies: the feed items whose id some verdict with is_public names
filterPublicCompanies(rssData, responses, idField) ==
  LET verdicts == filteredCompanies(rssData, responses, idField)
      publicCompanyMap == {verdicts[i].id : i \in {j \in DOMAIN verdicts : verdicts[j].is_public}}
  IN SelectSeq(rssData, LAMBDA item : Str(item.id) \in publicCompanyMap)

(***************************************************************************)
(* State.                                                                  *)
(***************************************************************************)
VARIABLES
  pipeline,          \* "fda" or "sec": the ingest/process route pair this behaviour runs
  uniqueNativeId,    \* whether the store's schema declares fda_id / sec_id UNIQUE (not
                     \* visible in the repository: either may be deployed)
  today,             \* the current day (new Date() cut to its date)
  announcements,     \* table fda_announcements / sec_filings, in insertion order
  processing_queue,  \* table processing_queue, in insertion (scheduled_at) order
  processed_news,    \* table processed_news
  ingestTasks,       \* the ingestRSSItem / ingestSECFiling calls started so far
  judgedPrivate,     \* history: the native ids the company filter has given an
                     \* is_public = false verdict
  leftOut,           \* history: the native ids of feed items with a company name
                     \* that a request's company filter returned no verdict for
                     \* and that the request did not ingest
  runs,              \* the classification POST invocations, by run id
  runStarts,         \* how many classification invocations have started
  aBatch,            \* SpecAnalyze: the sub-batch handed to the batch analyzer
  aResponse,         \* SpecAnalyze: the model's response
  aResults,          \* SpecAnalyze: what the batch analyzer returned
  aPc,               \* SpecAnalyze: "ready" or "done"
  tNow,              \* SpecTime: new Date() of the request
  tParam,            \* SpecTime: the timeframe query parameter ("" when absent)
  tEntries,          \* SpecTime: the date fields of the feed's entries
  tOut,              \* SpecTime: the handler's cutoff and retained entries
  tPc,               \* SpecTime: "ready" or "done"
  fNow,              \* SpecFeed: Date.now() of the next feed request
  fLog,              \* SpecFeed: the feed requests served so far, each with the
                     \* upstream feeds it met and the response it gave
  cEntry,            \* SpecSubtype: the feed entry (SEC) or announcement (FDA) at hand
  cRow,              \* SpecSubtype: the sec_filings row made of the entry
  cResult,           \* SpecSubtype: the fallback classification of the row
  cPc,               \* SpecSubtype: "entry", "row" or "done"
  isRunning,         \* fda-cron.js: let isRunning
  runCount,          \* fda-cron.js: let runCount
  errorCount,        \* fda-cron.js: let errorCount
  requests,          \* SpecCron: the pipeline requests sent and not yet answered
  sent,              \* SpecCron: how many pipeline requests were sent
  triggers,          \* SpecCron: how many times fetchFDANews was called
  startupRan,        \* SpecCron: whether the run on startup has been called
  exited             \* SpecCron: whether the process has exited

vars == <<pipeline, uniqueNativeId, judgedPrivate, leftOut, today, announcements, processing_queue, processed_news,
          ingestTasks, runs, runStarts, aBatch, aResponse, aResults, aPc,
          tNow, tParam, tEntries, tOut, tPc, fNow, fLog,
          cEntry, cRow, cResult, cPc,
          isRunning, runCount, errorCount, requests, sent, triggers, startupRan, exited>>

pipelineVars == <<pipeline, uniqueNativeId, judgedPrivate, leftOut, today, announcements, processing_queue,
                  processed_news, ingestTasks, runs, runStarts>>

analyzeVars == <<aBatch, aResponse, aResults, aPc>>

timeVars == <<tNow, tParam, tEntries, tOut, tPc>>

feedVars == <<fNow, fLog>>

subtypeVars == <<cEntry, cRow, cResult, cPc>>

cronVars == <<isRunning, runCount, errorCount, requests, sent, triggers, startupRan, exited>>

\* SpecSubtype and SpecCron at rest
IdleSubtype == cEntry = <<>> /\ cRow = <<>> /\ cResult = <<>> /\ cPc = "off"

IdleCron ==
  /\ isRunning = FALSE /\ runCount = 0 /\ errorCount = 0
  /\ requests = 0 /\ sent = 0 /\ triggers = 0 /\ startupRan = FALSE /\ exited = FALSE

(***************************************************************************)
(* Bounds and sample data.                                                 *)
(***************************************************************************)
NumIds == 2

MaxQueue == 2

MaxFeedItems == 2

MaxIngestTasks == 2

MaxRunStarts == 2

MaxDay == 1

RunIds == {1, 2}

\* BATCH_SIZE of the process routes
BATCH_SIZE == 2

\* the batchSize parameter of the classification request (the routes default to 12)
batchSize == 3

\* the id the store gives the n-th row of a table
UUID(n) ==
  [i \in 1..36 |-> IF i \in {9, 14, 19, 24} THEN "-"
                   ELSE IF i = 15 THEN "4" ELSE IF i = 20 THEN "8"
                   ELSE IF i = 36 THEN DigitChars[n + 1] ELSE "0"]

\* source-native ids a feed item can carry
NativeId(k) == <<"n", DigitChars[k + 1]>>

\* the data_sources row id the ingest routes pass along
SourceId == <<"s","r","c">>

\* the announcement type of the sample FDA entry with native id n
TypeOfNative(n) ==
  IF n = NativeId(1) THEN L.drug_approval
  ELSE IF n = NativeId(2) THEN L.regulatory ELSE L.safety_alert

\* the form of the sample SEC entry with native id n
FormOfNative(n) ==
  IF n = NativeId(1) THEN [form_type |-> L.form_8k, content |-> <<"m","e","r","g","e","r">>]
  ELSE IF n = NativeId(2) THEN [form_type |-> L.form_unknown, content |-> <<>>]
  ELSE [form_type |-> L.form_4, content |-> <<>>]

\* what the feed route hands to the ingest route for the entry with native id n
\* and company field c, dated day
FeedItem(p, n, c, day) ==
  IF p = "fda"
    THEN [id |-> n, company |-> c, announcement_type |-> TypeOfNative(n), date |-> day]
    ELSE [id |-> n, company |-> c, form_type |-> FormOfNative(n).form_type,
          filing_type |-> categorizeFilingType(FormOfNative(n).form_type, FormOfNative(n).content),
          priority |-> determinePriority(FormOfNative(n).form_type,
                         categorizeFilingType(FormOfNative(n).form_type, FormOfNative(n).content)),
          ticker |-> Null, date |-> day]

\* the native ids the sample feed carries
IngestIds == {NativeId(k) : k \in 1..NumIds}

\* the entries a feed can hold on a day
FeedItems(p, day) ==
  {FeedItem(p, n, c, day) : n \in IngestIds, c \in {Str(L.big_pharma), Null}}

SeqsUpTo(S, n) == UNION {[1..k -> S] : k \in 0..n}

NativeOf(row) == IF "fda_id" \in DOMAIN row THEN row.fda_id ELSE row.sec_id

(***************************************************************************)
(* Ingestion: POST of the ingest routes, then one ingestRSSItem /          *)
(* ingestSECFiling call per public item, all running concurrently.         *)
(***************************************************************************)
IdField == IF pipeline = "fda" THEN "fda_id" ELSE "sec_id"

\* announcementData / filingData: the columns written for a feed item
announcementData(item) ==
  IF pipeline = "fda"
    THEN [fda_id |-> item.id, announcement_type |-> item.announcement_type,
          announcement_date |-> item.date, source_id |-> SourceId]
    ELSE [sec_id |-> item.id, filing_type |-> item.filing_type, form_type |-> item.form_type,
          priority |-> Str(item.priority), ticker |-> item.ticker,
          filing_date |-> item.date, source_id |-> SourceId]

WithId(data, id) == [f \in DOMAIN data \cup {"id"} |-> IF f = "id" THEN id ELSE data[f]]

\* the feed data one request can receive: entries with distinct ids
FeedBatches ==
  {b \in SeqsUpTo(FeedItems(pipeline, today), MaxFeedItems) :
     Len(b) >= 1 /\ \A i, j \in DOMAIN b : b[i].id = b[j].id => i = j}

\* what the model can answer to the company filter for a batch: a failed call,
\* prose, or an array of verdicts (possibly shorter than the batch, possibly
\* echoing another id of the batch or none)
FilterResponses(rssData) ==
  LET ids == {rssData[i].id : i \in DOMAIN rssData}
      element == {Obj(IdField :> Str(id) @@ "is_public" :> Bool(b)) : id \in ids, b \in BOOLEAN}
                   \cup {Obj("is_public" :> Bool(FALSE))}
      checked == Cardinality({i \in DOMAIN rssData : Truthy(rssData[i].company)})
  IN IF checked = 0 THEN {Thrown}
     ELSE {Thrown, Text(<<Word>>)}
            \cup {Text(Serialize(Arr(a))) : a \in SeqsUpTo(element, checked)}

\* POST of the ingest route, from the fetched feed data to the start of the
\* per-item ingestion calls
IngestPOST ==
  /\ Len(ingestTasks) < MaxIngestTasks
  /\ \E rssData \in FeedBatches : \E response \in FilterResponses(rssData) :
       LET verdicts == filteredCompanies(rssData, <<response>>, IdField)
           publicCompanies == filterPublicCompanies(rssData, <<response>>, IdField)
       IN /\ Len(ingestTasks) + Len(publicCompanies) <= MaxIngestTasks
          /\ ingestTasks' = ingestTasks \o
               [i \in DOMAIN publicCompanies |->
                  [item |-> publicCompanies[i], pc |-> "select", existing |-> FALSE,
                   announcementId |-> <<>>, success |-> FALSE,
                   verdicts |-> {verdicts[j].is_public :
                                   j \in {v \in DOMAIN verdicts :
                                            verdicts[v].id = Str(publicCompanies[i].id)}}]]
          /\ judgedPrivate' = judgedPrivate \cup
               {verdicts[j].id.s : j \in {v \in DOMAIN verdicts :
                                            ~verdicts[v].is_public /\ verdicts[v].id.t = "string"}}
          /\ leftOut' = leftOut \cup
               {rssData[i].id : i \in {c \in DOMAIN rssData :
                  /\ Truthy(rssData[c].company)
                  /\ \A v \in DOMAIN verdicts : verdicts[v].id # Str(rssData[c].id)
                  /\ \A k \in DOMAIN publicCompanies : publicCompanies[k].id # rssData[c].id}}
  /\ UNCHANGED <<pipeline, uniqueNativeId, today, announcements, processing_queue,
                 processed_news, runs, runStarts>>
  /\ UNCHANGED <<analyzeVars, timeVars, feedVars, subtypeVars, cronVars>>

RowsWith(native) == {i \in DOMAIN announcements : NativeOf(announcements[i]) = native}

\* select('id').eq(native id).single(): data is a row only when exactly one matches
IngestSelect(k) ==
  /\ ingestTasks[k].pc = "select"
  /\ ingestTasks' = [ingestTasks EXCEPT ![k].pc = "write",
                       ![k].existing = (Cardinality(RowsWith(ingestTasks[k].item.id)) = 1)]
  /\ UNCHANGED <<pipeline, uniqueNativeId, judgedPrivate, leftOut, today, announcements, processing_queue,
                 processed_news, runs, runStarts>>
  /\ UNCHANGED <<analyzeVars, timeVars, feedVars, subtypeVars, cronVars>>

\* the update or the insert.  update(...).eq(native id).select('id').single()
\* rewrites every matching row and returns a row only when exactly one matched;
\* the insert fails on a duplicate when the schema declares the id unique.  With
\* no row returned, data.id is a TypeError and the call ends with success false.
IngestWrite(k) ==
  LET task == ingestTasks[k]
      native == task.item.id
      matching == RowsWith(native)
  IN /\ task.pc = "write"
     /\ IF task.existing
          THEN /\ announcements' =
                    [i \in DOMAIN announcements |->
                       IF i \in matching THEN WithId(announcementData(task.item), announcements[i].id)
                       ELSE announcements[i]]
               /\ ingestTasks' =
                    IF Cardinality(matching) = 1
                      THEN [ingestTasks EXCEPT ![k].pc = "enqueue",
                              ![k].announcementId = announcements[CHOOSE i \in matching : TRUE].id]
                      ELSE [ingestTasks EXCEPT ![k].pc = "done"]
          ELSE IF uniqueNativeId /\ matching # {}
            THEN /\ announcements' = announcements
                 /\ ingestTasks' = [ingestTasks EXCEPT ![k].pc = "done"]
            ELSE /\ announcements' =
                      Append(announcements,
                             WithId(announcementData(task.item), UUID(Len(announcements) + 1)))
                 /\ ingestTasks' = [ingestTasks EXCEPT ![k].pc = "enqueue",
                                      ![k].announcementId = UUID(Len(announcements) + 1)]
     /\ UNCHANGED <<pipeline, uniqueNativeId, judgedPrivate, leftOut, today, processing_queue, processed_news,
                    runs, runStarts>>
     /\ UNCHANGED <<analyzeVars, timeVars, feedVars, subtypeVars, cronVars>>

\* insert into processing_queue, status pending
IngestEnqueue(k) ==
  /\ ingestTasks[k].pc = "enqueue"
  /\ processing_queue' =
       Append(processing_queue,
              [announcement_id |-> ingestTasks[k].announcementId, source_id |-> SourceId,
               status |-> "pending", retry_count |-> 0, error_message |-> <<>>])
  /\ ingestTasks' = [ingestTasks EXCEPT ![k].pc = "done", ![k].success = TRUE]
  /\ UNCHANGED <<pipeline, uniqueNativeId, judgedPrivate, leftOut, today, announcements, processed_news,
                 runs, runStarts>>
  /\ UNCHANGED <<analyzeVars, timeVars, feedVars, subtypeVars, cronVars>>

(***************************************************************************)
(* Classification: POST of the process routes.  A run selects the pending  *)
(* entries, then handles them in sub-batches of BATCH_SIZE, one after      *)
(* another: mark processing, call the model, save each result.             *)
(***************************************************************************)
IdleRun == [pc |-> "idle", items |-> <<>>, at |-> 1, results |-> <<>>, save |-> <<>>,
            ok |-> <<>>, rc |-> <<>>, processed |-> 0, failed |-> 0]

\* the row of the announcements table with the given id (the inner join)
JoinedRows(id) == {i \in DOMAIN announcements : announcements[i].id = id}

\* the select of POST: status pending, joined to its announcement (for the FDA
\* route only announcements dated today), by scheduled_at, at most batchSize
SelectPending ==
  LET hits == SelectSeq([q \in DOMAIN processing_queue |-> q],
                LAMBDA q : /\ processing_queue[q].status = "pending"
                           /\ \E i \in JoinedRows(processing_queue[q].announcement_id) :
                                pipeline = "fda" => announcements[i].announcement_date = today)
  IN [n \in 1..Min(batchSize, Len(hits)) |->
        [id |-> hits[n],
         ann |-> announcements[CHOOSE i \in JoinedRows(processing_queue[hits[n]].announcement_id) : TRUE]]]

\* a bug POST could have: the selection handled as one sub-batch
BatchOf_whole(run) == SubSeq(run.items, run.at, Len(run.items))

\* the sub-batch a run is at: batches[i] = queueItems.slice(i, i + BATCH_SIZE)
BatchOf(run) == SubSeq(run.items, run.at, Min(run.at + BATCH_SIZE - 1, Len(run.items)))

BatchAnns(run) == [i \in DOMAIN BatchOf(run) |-> BatchOf(run)[i].ann]

\* what the model can answer to a classification request
ClassifierResponses ==
  LET element == {Obj("relevance_score" :> Num(sc)) : sc \in {10, 40}}
  IN {Thrown, Text(<<Word>>),
      Text(Serialize(Obj("relevance_score" :> Num(85) @@ "tags" :> Arr(<<Str(L.fda)>>))))}
       \cup {Text(Serialize(Arr(a))) : a \in SeqsUpTo(element, BATCH_SIZE)}

Analyze(batchAnns, response) ==
  IF pipeline = "fda" THEN batchAnalyzeWithClaude(batchAnns, response)
  ELSE batchAnalyzeSECWithClaude(batchAnns, response)

RunSelect(r) ==
  /\ runs[r].pc = "idle"
  /\ runStarts < MaxRunStarts
  /\ runStarts' = runStarts + 1
  /\ runs' = [runs EXCEPT ![r] =
                IF SelectPending = <<>> THEN IdleRun
                ELSE [IdleRun EXCEPT !.pc = "mark", !.items = SelectPending]]
  /\ UNCHANGED <<pipeline, uniqueNativeId, judgedPrivate, leftOut, today, announcements, processing_queue,
                 processed_news, ingestTasks>>
  /\ UNCHANGED <<analyzeVars, timeVars, feedVars, subtypeVars, cronVars>>

\* updateQueueStatus(queueId, status) with no error message: one update
SetStatus(queue, q, status) == [queue EXCEPT ![q].status = status]

\* a bug processBatchWithAI could have: the model called without the entries
\* marked first
RunMark_unmarked(r) ==
  /\ runs[r].pc = "mark"
  /\ runs' = [runs EXCEPT ![r].pc = "call"]
  /\ UNCHANGED <<pipeline, uniqueNativeId, judgedPrivate, leftOut, today, announcements, processing_queue,
                 processed_news, ingestTasks, runStarts>>
  /\ UNCHANGED <<analyzeVars, timeVars, feedVars, subtypeVars, cronVars>>

\* Promise.all(batchItems.map(item => updateQueueStatus(item.id, 'processing')))
RunMark(r) ==
  LET ids == {BatchOf(runs[r])[i].id : i \in DOMAIN BatchOf(runs[r])}
  IN /\ runs[r].pc = "mark"
     /\ processing_queue' = [q \in DOMAIN processing_queue |->
                               IF q \in ids THEN [processing_queue[q] EXCEPT !.status = "processing"]
                               ELSE processing_queue[q]]
     /\ runs' = [runs EXCEPT ![r].pc = "call"]
     /\ UNCHANGED <<pipeline, uniqueNativeId, judgedPrivate, leftOut, today, announcements, processed_news,
                    ingestTasks, runStarts>>
     /\ UNCHANGED <<analyzeVars, timeVars, feedVars, subtypeVars, cronVars>>

\* the marking step rejects (a store call throws) after the updates in marked
\* were applied: the catch of processBatchWithAI marks every entry of the
\* sub-batch failed with the error's message, each through updateQueueStatus
RunMarkThrows(r) ==
  LET ids == {BatchOf(runs[r])[i].id : i \in DOMAIN BatchOf(runs[r])}
  IN /\ runs[r].pc = "mark"
     /\ \E marked \in SUBSET ids :
          /\ marked # ids
          /\ processing_queue' = [q \in DOMAIN processing_queue |->
                                    IF q \in marked
                                      THEN [processing_queue[q] EXCEPT !.status = "processing"]
                                    ELSE processing_queue[q]]
     /\ runs' = [runs EXCEPT ![r].pc = "save",
                   ![r].results = <<>>,
                   ![r].save = [i \in DOMAIN BatchOf(runs[r]) |-> "failing"],
                   ![r].ok = [i \in DOMAIN BatchOf(runs[r]) |-> FALSE],
                   ![r].rc = [i \in DOMAIN BatchOf(runs[r]) |-> 0]]
     /\ UNCHANGED <<pipeline, uniqueNativeId, judgedPrivate, leftOut, today, announcements, processed_news,
                    ingestTasks, runStarts>>
     /\ UNCHANGED <<analyzeVars, timeVars, feedVars, subtypeVars, cronVars>>

\* the model call and the batch analyzer's handling of its response
RunCall(r) ==
  /\ runs[r].pc = "call"
  /\ \E response \in ClassifierResponses :
       runs' = [runs EXCEPT ![r].pc = "save",
                  ![r].results = Analyze(BatchAnns(runs[r]), response),
                  ![r].save = [i \in DOMAIN BatchOf(runs[r]) |-> "start"],
                  ![r].ok = [i \in DOMAIN BatchOf(runs[r]) |-> FALSE],
                  ![r].rc = [i \in DOMAIN BatchOf(runs[r]) |-> 0]]
  /\ UNCHANGED <<pipeline, uniqueNativeId, judgedPrivate, leftOut, today, announcements, processing_queue,
                 processed_news, ingestTasks, runStarts>>
  /\ UNCHANGED <<analyzeVars, timeVars, feedVars, subtypeVars, cronVars>>


\* a bug SkipsPersistence could have: a lower suppression threshold
SkipsPersistence_below10(analysis) == analysis.relevance_score < 10

\* if (analysis.relevance_score < 30): not saved, the entry is completed
SkipsPersistence(analysis) == analysis.relevance_score < 30


\* a bug IsPublished could have: publishing from the persistence threshold on
IsPublished_from30(analysis) == analysis.relevance_score >= 30

\* is_published: analysis.relevance_score >= 50
IsPublished(analysis) == analysis.relevance_score >= 50

\* published_at: analysis.relevance_score >= 50 ? new Date().toISOString() : null
PublishedAt(analysis, now) == IF analysis.relevance_score >= 50 THEN Num(now) ELSE Null

\* the processed_news row of an analysis
NewsRow(analysis) ==
  [f \in DOMAIN analysis \cup {"source_id", "is_published", "published_at"} |->
     CASE f = "source_id" -> SourceId
       [] f = "is_published" -> IsPublished(analysis)
       [] f = "published_at" -> PublishedAt(analysis, today)
       [] OTHER -> analysis[f]]

\* saveBatchAnalysisResult / saveSECAnalysisResult up to its first store call:
\* below the threshold the entry is completed with no row; otherwise the row is
\* inserted, or the insert returns an error
SaveStart(r, i) ==
  LET run == runs[r]
      q == BatchOf(run)[i].id
      analysis == run.results[i]
  IN /\ run.pc = "save"
     /\ run.save[i] = "start"
     /\ IF SkipsPersistence(analysis)
          THEN /\ processing_queue' = SetStatus(processing_queue, q, "completed")
               /\ processed_news' = processed_news
               /\ runs' = [runs EXCEPT ![r].save[i] = "done", ![r].ok[i] = TRUE]
          ELSE \/ /\ processed_news' = Append(processed_news, NewsRow(analysis))
                  /\ runs' = [runs EXCEPT ![r].save[i] = "inserted"]
                  /\ UNCHANGED processing_queue
               \/ /\ runs' = [runs EXCEPT ![r].save[i] = "failing"]
                  /\ UNCHANGED <<processed_news, processing_queue>>
     /\ UNCHANGED <<pipeline, uniqueNativeId, judgedPrivate, leftOut, today, announcements, ingestTasks,
                    runStarts>>
     /\ UNCHANGED <<analyzeVars, timeVars, feedVars, subtypeVars, cronVars>>

\* after the insert: updateQueueStatus(queueItem.id, 'completed')
SaveComplete(r, i) ==
  /\ runs[r].pc = "save"
  /\ runs[r].save[i] = "inserted"
  /\ processing_queue' = SetStatus(processing_queue, BatchOf(runs[r])[i].id, "completed")
  /\ runs' = [runs EXCEPT ![r].save[i] = "done", ![r].ok[i] = TRUE]
  /\ UNCHANGED <<pipeline, uniqueNativeId, judgedPrivate, leftOut, today, announcements, processed_news,
                 ingestTasks, runStarts>>
  /\ UNCHANGED <<analyzeVars, timeVars, feedVars, subtypeVars, cronVars>>

\* updateQueueStatus(queueItem.id, 'failed', message), first store call: read retry_count
SaveFailRead(r, i) ==
  /\ runs[r].pc = "save"
  /\ runs[r].save[i] = "failing"
  /\ runs' = [runs EXCEPT ![r].save[i] = "failed_read",
                ![r].rc[i] = processing_queue[BatchOf(runs[r])[i].id].retry_count]
  /\ UNCHANGED <<pipeline, uniqueNativeId, judgedPrivate, leftOut, today, announcements, processing_queue,
                 processed_news, ingestTasks, runStarts>>
  /\ UNCHANGED <<analyzeVars, timeVars, feedVars, subtypeVars, cronVars>>

\* ... second store call: status failed, the message, retry_count = read value + 1
SaveFailWrite(r, i) ==
  LET q == BatchOf(runs[r])[i].id
  IN /\ runs[r].pc = "save"
     /\ runs[r].save[i] = "failed_read"
     /\ processing_queue' = [processing_queue EXCEPT ![q].status = "failed",
                               ![q].error_message = <<"e","r","r","o","r">>,
                               ![q].retry_count = runs[r].rc[i] + 1]
     /\ runs' = [runs EXCEPT ![r].save[i] = "done", ![r].ok[i] = FALSE]
     /\ UNCHANGED <<pipeline, uniqueNativeId, judgedPrivate, leftOut, today, announcements, processed_news,
                    ingestTasks, runStarts>>
     /\ UNCHANGED <<analyzeVars, timeVars, feedVars, subtypeVars, cronVars>>

\* a bug POST could have: the loop over the sub-batches left at the first
\* sub-batch with a failed entry
RunNext_halts(r) ==
  LET run == runs[r]
      successful == Cardinality({i \in DOMAIN run.ok : run.ok[i]})
  IN /\ run.pc = "save"
     /\ \A i \in DOMAIN run.save : run.save[i] = "done"
     /\ runs' = [runs EXCEPT ![r].processed = @ + successful,
                   ![r].failed = @ + (Len(run.ok) - successful),
                   ![r].at = @ + BATCH_SIZE,
                   ![r].pc = IF run.at + BATCH_SIZE > Len(run.items) \/ successful < Len(run.ok)
                               THEN "idle" ELSE "mark"]
     /\ UNCHANGED <<pipeline, uniqueNativeId, judgedPrivate, leftOut, today, announcements, processing_queue,
                    processed_news, ingestTasks, runStarts>>
     /\ UNCHANGED <<analyzeVars, timeVars, feedVars, subtypeVars, cronVars>>

\* Promise.allSettled has settled: count successes and failures, then the next
\* sub-batch, or the response when there is none
RunNext(r) ==
  LET run == runs[r]
      successful == Cardinality({i \in DOMAIN run.ok : run.ok[i]})
  IN /\ run.pc = "save"
     /\ \A i \in DOMAIN run.save : run.save[i] = "done"
     /\ runs' = [runs EXCEPT ![r].processed = @ + successful,
                   ![r].failed = @ + (Len(run.ok) - successful),
                   ![r].at = @ + BATCH_SIZE,
                   ![r].pc = IF run.at + BATCH_SIZE > Len(run.items) THEN "idle" ELSE "mark"]
     /\ UNCHANGED <<pipeline, uniqueNativeId, judgedPrivate, leftOut, today, announcements, processing_queue,
                    processed_news, ingestTasks, runStarts>>
     /\ UNCHANGED <<analyzeVars, timeVars, feedVars, subtypeVars, cronVars>>

\* midnight passes
Tick ==
  /\ today < MaxDay
  /\ today' = today + 1
  /\ UNCHANGED <<pipeline, uniqueNativeId, judgedPrivate, leftOut, announcements, processing_queue, processed_news,
                 ingestTasks, runs, runStarts>>
  /\ UNCHANGED <<analyzeVars, timeVars, feedVars, subtypeVars, cronVars>>

(***************************************************************************)
(* Specifications.  Spec is the whole pipeline from empty tables.          *)
(* SpecIngest is its ingestion half alone; SpecProcess is its              *)
(* classification half alone, started from the tables as ingestion leaves  *)
(* them: QueueLen announcements of the day, each with its pending entry.   *)
(***************************************************************************)
Idle ==
  /\ aBatch = <<>> /\ aResponse = Thrown /\ aResults = <<>> /\ aPc = "off"
  /\ tNow = 0 /\ tParam = "" /\ tEntries = <<>> /\ tOut = <<>> /\ tPc = "off"
  /\ fNow = 0 /\ fLog = <<>>
  /\ IdleSubtype /\ IdleCron

Init ==
  /\ pipeline \in {"fda", "sec"}
  /\ uniqueNativeId \in BOOLEAN
  /\ judgedPrivate = {}
  /\ leftOut = {}
  /\ today = 0
  /\ announcements = <<>>
  /\ processing_queue = <<>>
  /\ processed_news = <<>>
  /\ ingestTasks = <<>>
  /\ runs = [r \in RunIds |-> IdleRun]
  /\ runStarts = 0
  /\ Idle

NextIngest ==
  \/ IngestPOST
  \/ \E k \in DOMAIN ingestTasks : IngestSelect(k)
  \/ \E k \in DOMAIN ingestTasks : IngestWrite(k)
  \/ \E k \in DOMAIN ingestTasks : IngestEnqueue(k)

NextProcess ==
  \/ \E r \in RunIds : RunSelect(r)
  \/ \E r \in RunIds : RunMark(r)
  \/ \E r \in RunIds : RunMarkThrows(r)
  \/ \E r \in RunIds : RunCall(r)
  \/ \E r \in RunIds : \E i \in DOMAIN runs[r].save : SaveStart(r, i)
  \/ \E r \in RunIds : \E i \in DOMAIN runs[r].save : SaveComplete(r, i)
  \/ \E r \in RunIds : \E i \in DOMAIN runs[r].save : SaveFailRead(r, i)
  \/ \E r \in RunIds : \E i \in DOMAIN runs[r].save : SaveFailWrite(r, i)
  \/ \E r \in RunIds : RunNext(r)
  \/ Tick

Next == NextIngest \/ NextProcess

Spec == Init /\ [][Next]_vars

SpecIngest == Init /\ [][NextIngest]_vars

\* the tables after the n first sample entries of the day were ingested
Ingested(p, n) ==
  [k \in 1..n |->
     LET item == FeedItem(p, NativeId(k), Str(L.big_pharma), 0)
     IN IF p = "fda"
          THEN [id |-> UUID(k), fda_id |-> item.id, announcement_type |-> item.announcement_type,
                announcement_date |-> item.date, source_id |-> SourceId]
          ELSE [id |-> UUID(k), sec_id |-> item.id, filing_type |-> item.filing_type,
                form_type |-> item.form_type, priority |-> Str(item.priority),
                ticker |-> item.ticker, filing_date |-> item.date, source_id |-> SourceId]]

InitProcess ==
  /\ pipeline \in {"fda", "sec"}
  /\ uniqueNativeId = TRUE
  /\ judgedPrivate = {}
  /\ leftOut = {}
  /\ today = 0
  /\ \E n \in 1..MaxQueue :
       /\ announcements = Ingested(pipeline, n)
       /\ processing_queue = [k \in 1..n |->
                                [announcement_id |-> UUID(k), source_id |-> SourceId,
                                 status |-> "pending", retry_count |-> 0, error_message |-> <<>>]]
  /\ processed_news = <<>>
  /\ ingestTasks = <<>>
  /\ runs = [r \in RunIds |-> IdleRun]
  /\ runStarts = 0
  /\ Idle

SpecProcess == InitProcess /\ [][NextProcess]_vars

(***************************************************************************)
(* SpecAnalyze: the batch analyzers alone, over sub-batches of sample      *)
(* announcements and a wide set of model responses.                        *)
(***************************************************************************)
MaxResponseLen == 3

SampleRows == 3

EmptyObj == Obj([f \in {} |-> Null])

\* elements a response array can hold
AnalysisElements(p) ==
  LET idf == IF p = "fda" THEN "fda_announcement_id" ELSE "sec_filing_id"
  IN { Obj(idf :> Str(UUID(1)) @@ "relevance_score" :> Num(85) @@ "priority_level" :> Str(L.high)
           @@ "sentiment" :> Str(L.bullish) @@ "sentiment_strength" :> Num(70)
           @@ "stock_ticker" :> Str(L.aapl) @@ "stock_exchange" :> Str(L.nasdaq)
           @@ "tags" :> Arr(<<Str(L.fda), Str(L.two_words)>>)),
       Obj("relevance_score" :> Num(150) @@ "priority_level" :> Str(L.HIGH)
           @@ "sentiment" :> Str(L.critical) @@ "sentiment_strength" :> Num(150)
           @@ "stock_ticker" :> Str(L.null_word) @@ "stock_exchange" :> Str(L.lse)
           @@ "tags" :> Arr([i \in 1..6 |-> Str(L.fda)])),
       Obj(idf :> Str(L.abc) @@ "relevance_score" :> Num(-20) @@ "priority_level" :> Num(1)
           @@ "sentiment" :> Null @@ "sentiment_strength" :> Str(L.abc)
           @@ "stock_ticker" :> Num(5) @@ "tags" :> Str(L.fda)),
       Obj("relevance_score" :> Str(L.n85) @@ "priority_level" :> Str(L.low)
           @@ "sentiment" :> Str(L.bearish) @@ "sentiment_strength" :> Str(L.n12abc)
           @@ "tags" :> Arr(<<Num(7), Null, Bool(TRUE)>>)),
       Obj("relevance_score" :> Num(40) @@ "sentiment_strength" :> Num(0)),
       EmptyObj, Null, Str(L.abc) }

\* the texts a response can be: an array of elements, bare, in a code fence or
\* inside prose; and texts that are no array
AnalysisResponses(p) ==
  LET arrays == {Serialize(Arr(a)) : a \in SeqsUpTo(AnalysisElements(p), MaxResponseLen)}
      holder == Obj("relevance_score" :> Num(90) @@ "tags" :> Arr(<<Str(L.abc)>>))
  IN {Thrown, Text(<<>>), Text(<<Word>>), Text(<<LB, Word, RB>>), Text(<<LB, Lit(Num(1))>>),
      Text(<<Lit(Str(L.abc))>>), Text(<<Lit(Null)>>), Text(Serialize(EmptyObj)),
      Text(Serialize(holder)), Text(<<FenceJson>> \o Serialize(holder) \o <<Fence>>),
      Text(<<Word, LB, Lit(Num(1)), Comma, Lit(Num(2)), RB>>)}
       \cup {Text(toks) : toks \in arrays}
       \cup {Text(<<FenceJson>> \o toks \o <<Fence>>) : toks \in arrays}
       \cup {Text(<<Word>> \o toks \o <<Word>>) : toks \in arrays}

\* the sub-batches: up to BATCH_SIZE different sample announcements
AnalysisBatches(p) ==
  {b \in SeqsUpTo({Ingested(p, SampleRows)[k] : k \in 1..SampleRows}, BATCH_SIZE) :
     Len(b) >= 1 /\ \A i, j \in DOMAIN b : b[i] = b[j] => i = j}

InitAnalyze ==
  /\ pipeline \in {"fda", "sec"}
  /\ uniqueNativeId = TRUE
  /\ judgedPrivate = {}
  /\ leftOut = {}
  /\ today = 0
  /\ announcements = <<>> /\ processing_queue = <<>> /\ processed_news = <<>>
  /\ ingestTasks = <<>>
  /\ runs = [r \in RunIds |-> IdleRun]
  /\ runStarts = 0
  /\ aBatch \in AnalysisBatches(pipeline)
  /\ aResponse \in AnalysisResponses(pipeline)
  /\ aResults = <<>>
  /\ aPc = "ready"
  /\ tNow = 0 /\ tParam = "" /\ tEntries = <<>> /\ tOut = <<>> /\ tPc = "off"
  /\ fNow = 0 /\ fLog = <<>>
  /\ IdleSubtype /\ IdleCron

\* one call of batchAnalyzeWithClaude
AnalyzeFDA ==
  /\ aPc = "ready" /\ pipeline = "fda"
  /\ aResults' = batchAnalyzeWithClaude(aBatch, aResponse)
  /\ aPc' = "done"
  /\ UNCHANGED <<pipelineVars, aBatch, aResponse, timeVars, feedVars, subtypeVars, cronVars>>

\* one call of batchAnalyzeSECWithClaude
AnalyzeSEC ==
  /\ aPc = "ready" /\ pipeline = "sec"
  /\ aResults' = batchAnalyzeSECWithClaude(aBatch, aResponse)
  /\ aPc' = "done"
  /\ UNCHANGED <<pipelineVars, aBatch, aResponse, timeVars, feedVars, subtypeVars, cronVars>>

NextAnalyze == AnalyzeFDA \/ AnalyzeSEC

SpecAnalyze == InitAnalyze /\ [][NextAnalyze]_vars

(***************************************************************************)
(* SpecTime: one request to a route with a time-window filter.             *)
(***************************************************************************)
MaxEntries == 2

\* the instant of minute-of-day min on day date of month (0-based) of year
InstantOf(year, month, date, min) == ((year * 365 + DaysBefore(month) + date - 1) * 1440) + min

\* request times: mid-month, the last day of a long month, the first of January
SampleNow == {InstantOf(1, 5, 15, 720), InstantOf(1, 2, 31, 30), InstantOf(2, 0, 1, 0)}

\* timeframe parameters; "" is a request without the parameter
SampleTokens == {"", "1min", "10min", "1h", "6h", "24h", "3d", "1w", "1m", "3m", "all", "7d", "bogus"}

\* how long before the request an entry is dated, in minutes (negative: after it)
SampleAges == {0, 59, 60, 61, 120, 1440, 1441, 1800, -5}

InitTime ==
  /\ pipeline = "fda"
  /\ uniqueNativeId = TRUE
  /\ judgedPrivate = {}
  /\ leftOut = {}
  /\ today = 0
  /\ announcements = <<>> /\ processing_queue = <<>> /\ processed_news = <<>>
  /\ ingestTasks = <<>>
  /\ runs = [r \in RunIds |-> IdleRun]
  /\ runStarts = 0
  /\ aBatch = <<>> /\ aResponse = Thrown /\ aResults = <<>> /\ aPc = "off"
  /\ tNow \in SampleNow
  /\ tParam \in SampleTokens
  /\ tEntries \in SeqsUpTo({NoDate, BadDate} \cup {At(tNow - age) : age \in SampleAges}, MaxEntries)
  /\ tOut = <<>>
  /\ tPc = "ready"
  /\ fNow = 0 /\ fLog = <<>>
  /\ IdleSubtype /\ IdleCron

\* GET of the FDA feed route, tEntries being the pubDate fields of a feed
FDAFeedGET ==
  LET timeframe == ParamOr(tParam, "24h")
      cutoffTime == calculateTimeframe(timeframe, tNow)
  IN /\ tPc = "ready"
     /\ tOut' = [route |-> "fda-feed", timeframe |-> timeframe, cutoff |-> cutoffTime,
                 kept |-> recentItems(tEntries, cutoffTime)]
     /\ tPc' = "done"
     /\ UNCHANGED <<pipelineVars, analyzeVars, tNow, tParam, tEntries, feedVars, subtypeVars, cronVars>>

\* GET of the SEC feed route, tEntries being the updated fields of the feed
SECFeedGET ==
  LET timeframe == ParamOr(tParam, "1h")
      cutoffTime == calculateTimeframeSEC(timeframe, tNow)
  IN /\ tPc = "ready"
     /\ tOut' = [route |-> "sec-feed", timeframe |-> timeframe, cutoff |-> cutoffTime,
                 kept |-> recentItems(tEntries, cutoffTime)]
     /\ tPc' = "done"
     /\ UNCHANGED <<pipelineVars, analyzeVars, tNow, tParam, tEntries, feedVars, subtypeVars, cronVars>>

\* GET of the news route, tEntries being the published_at of the published rows
NewsGET ==
  LET timeframe == ParamOr(tParam, "24h")
      cutoffTime == calculateTimeframeCutoff(timeframe, tNow)
  IN /\ tPc = "ready"
     /\ tOut' = [route |-> "news", timeframe |-> timeframe, cutoff |-> cutoffTime,
                 kept |-> rowsSince(tEntries, cutoffTime)]
     /\ tPc' = "done"
     /\ UNCHANGED <<pipelineVars, analyzeVars, tNow, tParam, tEntries, feedVars, subtypeVars, cronVars>>

\* GET of the news route's other version
NewsRouteGET ==
  LET timeframe == ParamOr(tParam, "24h")
      cutoffTime == calculateTimeframeNews(timeframe, tNow)
  IN /\ tPc = "ready"
     /\ tOut' = [route |-> "news-route", timeframe |-> timeframe, cutoff |-> cutoffTime,
                 kept |-> rowsSince(tEntries, cutoffTime)]
     /\ tPc' = "done"
     /\ UNCHANGED <<pipelineVars, analyzeVars, tNow, tParam, tEntries, feedVars, subtypeVars, cronVars>>

\* GET of the news route's first version
FirstNewsGET ==
  LET timeframe == ParamOr(tParam, "24h")
      cutoffTime == cutoffFirstNews(timeframe, tNow)
  IN /\ tPc = "ready"
     /\ tOut' = [route |-> "first-news", timeframe |-> timeframe, cutoff |-> cutoffTime,
                 kept |-> rowsSince(tEntries, cutoffTime)]
     /\ tPc' = "done"
     /\ UNCHANGED <<pipelineVars, analyzeVars, tNow, tParam, tEntries, feedVars, subtypeVars, cronVars>>

\* GET of the SEC news route
SECNewsGET ==
  LET timeframe == ParamOr(tParam, "1h")
      cutoffTime == calculateTimeframeSECNews(timeframe, tNow)
  IN /\ tPc = "ready"
     /\ tOut' = [route |-> "sec-news", timeframe |-> timeframe, cutoff |-> cutoffTime,
                 kept |-> rowsSince(tEntries, cutoffTime)]
     /\ tPc' = "done"
     /\ UNCHANGED <<pipelineVars, analyzeVars, tNow, tParam, tEntries, feedVars, subtypeVars, cronVars>>

NextTime == FDAFeedGET \/ SECFeedGET \/ NewsGET \/ NewsRouteGET \/ FirstNewsGET \/ SECNewsGET

SpecTime == InitTime /\ [][NextTime]_vars

(***************************************************************************)
(* SpecFeed: requests to the FDA and SEC feed routes, against upstream     *)
(* feeds that can fail, be empty, or carry entries with missing fields.    *)
(* An upstream entry is known by its link.                                 *)
(***************************************************************************)
MaxFetches == 2

\* minutes between two requests
FetchGap == 5

\* Object.entries(FDA_RSS_FEEDS), in declaration order
FDA_RSS_FEEDS == <<"press_releases", "medwatch_alerts">>

\* what an upstream fetch can come to: a 2xx response with a well-formed
\* document of some entries, or one of the failures
Served(items) == [k |-> "ok", items |-> items]

FeedFailures ==
  {[k |-> "non2xx"], [k |-> "timeout"], [k |-> "empty_body"], [k |-> "malformed_xml"]}

\* the steps of one feed's fetch up to `const items = ...`: whether it throws
\* (fetch rejects on a timeout, !response.ok, an empty body, parseXML rejects,
\* or the parsed channel has no item member)
FetchThrows(upstream) == upstream.k # "ok" \/ Len(upstream.items) = 0

\* transformRSSItem(item, feedType, index) at Date.now() = now; the id is the
\* template `fda-rss-${feedType}-${Date.now()}-${index}`, kept as its parts
transformRSSItem(item, feedType, index, now) ==
  [id |-> <<"fda-rss", feedType, now, index>>,
   title |-> OrElse(item.title, Str(L.fda_announcement)),
   link |-> item.link,
   pub_date |-> item.pubDate,
   pub_date_full |-> IF item.pubDate.k = "date" THEN item.pubDate.t ELSE now,
   feed_type |-> feedType]

\* a bug the per-feed promise could have: no catch around the fetch, so that a
\* failed feed rejects
FeedPromise_rejects(feedType, upstream, cutoffTime, now) ==
  IF FetchThrows(upstream) THEN [k |-> "rejected"]
  ELSE LET kept == recentItems([i \in DOMAIN upstream.items |-> upstream.items[i].pubDate],
                               cutoffTime)
       IN [k |-> "fulfilled",
           value |-> [i \in DOMAIN kept |->
                        transformRSSItem(upstream.items[kept[i]], feedType, i - 1, now)]]

\* one element of feedPromises: the feed's recent items, transformed; an error
\* is caught and the promise fulfils with []
FeedPromise(feedType, upstream, cutoffTime, now) ==
  IF FetchThrows(upstream) THEN [k |-> "fulfilled", value |-> <<>>]
  ELSE LET kept == recentItems([i \in DOMAIN upstream.items |-> upstream.items[i].pubDate],
                               cutoffTime)
       IN [k |-> "fulfilled",
           value |-> [i \in DOMAIN kept |->
                        transformRSSItem(upstream.items[kept[i]], feedType, i - 1, now)]]

RECURSIVE flat(_)
\* feedResults.flat()
flat(arrays) == IF arrays = <<>> THEN <<>> ELSE Head(arrays) \o flat(Tail(arrays))

RECURSIVE InsertByDate(_, _, _)
\* x put after every element of sorted that the comparator does not order after it
InsertByDate(sorted, x, field) ==
  IF sorted = <<>> THEN <<x>>
  ELSE IF Head(sorted)[field] >= x[field]
         THEN <<Head(sorted)>> \o InsertByDate(Tail(sorted), x, field)
         ELSE <<x>> \o sorted

RECURSIVE sortNewestFirst(_, _)
\* a.sort((a, b) => new Date(b[field]) - new Date(a[field])): newest first,
\* entries of the same instant in their earlier order
sortNewestFirst(a, field) ==
  IF a = <<>> THEN <<>>
  ELSE InsertByDate(sortNewestFirst(SubSeq(a, 1, Len(a) - 1), field), a[Len(a)], field)

\* a.slice(0, limit), limit being the result of parseInt
slice0(a, limit) ==
  CASE limit.t = "NaN" -> <<>>
    [] limit.n >= 0 -> SubSeq(a, 1, Min(limit.n, Len(a)))
    [] OTHER -> SubSeq(a, 1, Max(Len(a) + limit.n, 0))

\* the response of the FDA feed route's GET to a request with the given query
\* parameters (<<>> and "": absent), the upstream feeds answering as upstream
FDAFeedResponse(limitParam, timeframeParam, upstream, now) ==
  LET limit == parseInt(OrElse(Str(limitParam), Str(L.n50)))
      timeframe == ParamOr(timeframeParam, "24h")
      cutoffTime == calculateTimeframe(timeframe, now)
      feedPromises == [f \in DOMAIN FDA_RSS_FEEDS |->
                         FeedPromise(FDA_RSS_FEEDS[f], upstream[f], cutoffTime, now)]
      allData == flat([f \in DOMAIN feedPromises |-> feedPromises[f].value])
      limitedData == slice0(sortNewestFirst(allData, "pub_date_full"), limit)
  IN IF \E f \in DOMAIN feedPromises : feedPromises[f].k = "rejected"
       THEN [status |-> 500, success |-> FALSE, error |-> "message"]
     ELSE IF Len(allData) = 0
       THEN [status |-> 200, success |-> TRUE, data |-> <<>>, count |-> 0,
             message |-> "No FDA announcements found", timeframe |-> timeframe,
             cutoff_time |-> cutoffTime]
     ELSE [status |-> 200, success |-> TRUE, data |-> limitedData,
           count |-> Len(limitedData), total_found |-> Len(allData),
           timeframe |-> timeframe, cutoff_time |-> cutoffTime,
           sources |-> FDA_RSS_FEEDS]

\* transformSECEntry(entry, index) at Date.now() = now; the id is the template
\* `sec-${Date.now()}-${index}`, kept as its parts
transformSECEntry(entry, index, now) ==
  [id |-> <<"sec", now, index>>,
   title |-> OrElse(entry.title, Str(L.sec_filing)),
   link |-> entry.link,
   updated |-> entry.pubDate,
   filing_date_full |-> IF entry.pubDate.k = "date" THEN entry.pubDate.t ELSE now]

\* the response of the SEC feed route's GET
SECFeedResponse(limitParam, timeframeParam, upstream, now) ==
  LET limit == parseInt(OrElse(Str(limitParam), Str(L.n40)))
      timeframe == ParamOr(timeframeParam, "1h")
      cutoffTime == calculateTimeframeSEC(timeframe, now)
      entries == upstream.items
      kept == slice0(recentItems([i \in DOMAIN entries |-> entries[i].pubDate], cutoffTime),
                     limit)
      recentFilings == [i \in DOMAIN kept |-> transformSECEntry(entries[kept[i]], i - 1, now)]
  IN IF FetchThrows(upstream)
       THEN [status |-> 500, success |-> FALSE, error |-> "message"]
     ELSE IF Len(recentFilings) = 0
       THEN [status |-> 200, success |-> TRUE, data |-> <<>>, count |-> 0,
             message |-> "No SEC filings found", timeframe |-> timeframe,
             cutoff_time |-> cutoffTime]
     ELSE [status |-> 200, success |-> TRUE,
           data |-> sortNewestFirst(recentFilings, "filing_date_full"),
           count |-> Len(recentFilings), total_found |-> Len(recentFilings),
           timeframe |-> timeframe, cutoff_time |-> cutoffTime,
           source |-> "SEC EDGAR RSS Feed"]

\* an upstream entry: its link, its title (Undef: no title element) and its
\* pubDate / updated field
Entry(link, title, pubDate) == [link |-> link, title |-> title, pubDate |-> pubDate]

\* how long before the request a dated sample entry was published, in minutes:
\* within every window, within the last hour, within the last week only
SampleAgeOf == [fresh |-> 10, recent |-> 30, old |-> 2000]

\* the documents a feed can serve at now: up to two entries of distinct links
\* out of the sample entries
SampleDocuments(samples) ==
  {d \in SeqsUpTo(samples, 2) : \A i, j \in DOMAIN d : d[i].link = d[j].link => i = j}

\* the press-release feed: an entry that may lack its pubDate, and one that may
\* lack its title
PressUpstreams(now) ==
  FeedFailures \cup
  {Served(d) : d \in SampleDocuments(
     {Entry("e1", Str(L.abc), p) : p \in {NoDate, At(now - SampleAgeOf.recent),
                                          At(now - SampleAgeOf.old)}}
       \cup {Entry("e2", t, At(now - SampleAgeOf.fresh)) : t \in {Str(L.abc), Undef}})}

\* the MedWatch feed: one entry, recent or old
MedwatchUpstreams(now) ==
  FeedFailures \cup
  {Served(d) : d \in SeqsUpTo({Entry("e3", Str(L.abc), At(now - a)) :
                                 a \in {SampleAgeOf.recent, SampleAgeOf.old}}, 1)}

\* the SEC feed
SECUpstreams(now) ==
  FeedFailures \cup
  {Served(d) : d \in SampleDocuments(
     {Entry("e1", Str(L.abc), p) : p \in {NoDate, At(now - SampleAgeOf.recent),
                                          At(now - SampleAgeOf.old)}}
       \cup {Entry("e2", Undef, At(now - SampleAgeOf.fresh))})}

FeedEpoch == InstantOf(1, 5, 15, 720)

InitFeed ==
  /\ pipeline = "fda"
  /\ uniqueNativeId = TRUE
  /\ judgedPrivate = {}
  /\ leftOut = {}
  /\ today = 0
  /\ announcements = <<>> /\ processing_queue = <<>> /\ processed_news = <<>>
  /\ ingestTasks = <<>>
  /\ runs = [r \in RunIds |-> IdleRun]
  /\ runStarts = 0
  /\ aBatch = <<>> /\ aResponse = Thrown /\ aResults = <<>> /\ aPc = "off"
  /\ tNow = 0 /\ tParam = "" /\ tEntries = <<>> /\ tOut = <<>> /\ tPc = "off"
  /\ fNow = FeedEpoch
  /\ fLog = <<>>
  /\ IdleSubtype /\ IdleCron

\* GET of the FDA feed route
FDAFeedFetch ==
  /\ Len(fLog) < MaxFetches
  /\ \E limitParam \in {<<>>, L.n1}, timeframeParam \in {"", "1w"},
        press \in PressUpstreams(fNow), medwatch \in MedwatchUpstreams(fNow) :
       fLog' = Append(fLog, [route |-> "fda", now |-> fNow, limit |-> limitParam,
                             upstream |-> <<press, medwatch>>,
                             response |-> FDAFeedResponse(limitParam, timeframeParam,
                                                          <<press, medwatch>>, fNow)])
  /\ fNow' = fNow + FetchGap
  /\ UNCHANGED <<pipelineVars, analyzeVars, timeVars, subtypeVars, cronVars>>

\* GET of the SEC feed route
SECFeedFetch ==
  /\ Len(fLog) < MaxFetches
  /\ \E limitParam \in {<<>>, L.n1}, timeframeParam \in {"", "1w"},
        upstream \in SECUpstreams(fNow) :
       fLog' = Append(fLog, [route |-> "sec", now |-> fNow, limit |-> limitParam,
                             upstream |-> <<upstream>>,
                             response |-> SECFeedResponse(limitParam, timeframeParam,
                                                          upstream, fNow)])
  /\ fNow' = fNow + FetchGap
  /\ UNCHANGED <<pipelineVars, analyzeVars, timeVars, subtypeVars, cronVars>>

NextFeed == FDAFeedFetch \/ SECFeedFetch

SpecFeed == InitFeed /\ [][NextFeed]_vars

(***************************************************************************)
(* Properties.                                                             *)
(***************************************************************************)

\* C1: every processed_news row has is_published = TRUE exactly when its
\* relevance_score is at least 50, and published_at set exactly when it is
\* published.
C1_PublishedIffRelevant ==
  \A i \in DOMAIN processed_news :
    /\ processed_news[i].is_published = (processed_news[i].relevance_score >= 50)
    /\ (processed_news[i].published_at # Null) = processed_news[i].is_published

\* C1's case: a row with a score in 30..49 is stored unpublished with no
\* published_at, next to a published row.
C1_Witness ==
  /\ \E i \in DOMAIN processed_news :
       /\ processed_news[i].relevance_score \in 30..49
       /\ processed_news[i].is_published = FALSE
       /\ processed_news[i].published_at = Null
  /\ \E i \in DOMAIN processed_news :
       /\ processed_news[i].relevance_score >= 50
       /\ processed_news[i].is_published = TRUE
       /\ processed_news[i].published_at # Null

\* C2: the save step of a result with relevance_score below 30 writes no
\* processed_news row, sets the queue entry to completed and reports success;
\* and when the sub-batch is tallied, every such entry is counted as processed.
C2_LowScoreCompleted ==
  [][\A r \in RunIds :
       /\ \A i \in DOMAIN runs[r].save :
            (/\ runs[r].pc = "save"
             /\ runs[r].save[i] = "start"
             /\ runs[r].results[i].relevance_score < 30
             /\ runs'[r].save[i] # "start")
            => /\ processed_news' = processed_news
               /\ processing_queue'[BatchOf(runs[r])[i].id].status = "completed"
               /\ runs'[r].save[i] = "done"
               /\ runs'[r].ok[i] = TRUE
       /\ (runs[r].pc = "save" /\ runs'[r].pc # "save")
            => /\ runs'[r].processed >= runs[r].processed
                    + Cardinality({i \in DOMAIN runs[r].results :
                                     runs[r].results[i].relevance_score < 30})
               /\ runs'[r].failed <= runs[r].failed
                    + Cardinality({i \in DOMAIN runs[r].ok :
                                     \/ i \notin DOMAIN runs[r].results
                                     \/ runs[r].results[i].relevance_score >= 30})]_vars

\* C2's case: a run has saved a result with a score below 30; its entry is
\* completed and no row was written.
C2_Witness ==
  \E r \in RunIds : \E i \in DOMAIN runs[r].save :
    /\ runs[r].pc = "save"
    /\ runs[r].save[i] = "done"
    /\ i \in DOMAIN runs[r].results
    /\ runs[r].results[i].relevance_score < 30
    /\ runs[r].ok[i]
    /\ processing_queue[BatchOf(runs[r])[i].id].status = "completed"
    /\ processed_news = <<>>

InRange(result) ==
  /\ result.relevance_score \in 0..100
  /\ result.sentiment_strength \in 0..100
  /\ result.priority_level \in {L.high, L.medium, L.low}
  /\ result.sentiment \in {L.bullish, L.bearish, L.neutral}
  /\ Len(result.tags) <= 5

\* C3: whatever the model returned, every result the batch analyzer hands to
\* the save step, and every processed_news row made of one, has both scores in
\* 0..100, a priority in {high, medium, low}, a sentiment in {bullish, bearish,
\* neutral} and at most 5 tags.
C3_PersistedInRange ==
  aPc = "done" =>
    \A i \in DOMAIN aResults :
      /\ InRange(aResults[i])
      /\ ~SkipsPersistence(aResults[i]) => InRange(NewsRow(aResults[i]))

\* C3's case: a response with scores of 150, an unknown priority and sentiment
\* and 6 tags was analyzed, and its result is persisted.
C3_Witness ==
  /\ aPc = "done"
  /\ aResponse.kind = "text"
  /\ \E i \in DOMAIN aResults :
       /\ aResults[i].relevance_score = 100
       /\ aResults[i].sentiment_strength = 100
       /\ Len(aResults[i].tags) = 5
       /\ ~SkipsPersistence(aResults[i])

\* C15: however often an id is ingested, its announcement has one entry in
\* the processing queue
C15_OneQueueEntryPerAnnouncement ==
  \A i, j \in DOMAIN processing_queue :
    processing_queue[i].announcement_id = processing_queue[j].announcement_id => i = j

\* the announcement a processed_news row belongs to
AnnouncementOf(row) ==
  IF pipeline = "fda" THEN row.fda_announcement_id ELSE row.sec_filing_id

\* C16: no announcement has more than one processed_news row
C16_OneResultPerAnnouncement ==
  \A i, j \in DOMAIN processed_news :
    AnnouncementOf(processed_news[i]) = AnnouncementOf(processed_news[j]) => i = j

\* C18: every feed item with a company name that the company filter returned
\* no entry for is ingested by the request it came with
C18_UnjudgedIngested == leftOut = {}

\* C19: the status of a queue entry changes only from pending to processing
\* and from processing to completed or failed
C19_StatusLifecycle ==
  [][\A q \in DOMAIN processing_queue :
       \/ processing_queue'[q].status = processing_queue[q].status
       \/ <<processing_queue[q].status, processing_queue'[q].status>>
            \in {<<"pending", "processing">>, <<"processing", "completed">>,
                 <<"processing", "failed">>}]_vars

\* C20: when a run dispatches the classification request of a sub-batch, no
\* entry of the sub-batch is pending
C20_MarkedBeforeDispatch ==
  [][\A r \in RunIds :
       (runs[r].pc = "call" /\ runs'[r].pc = "save")
         => \A i \in DOMAIN BatchOf(runs[r]) :
              processing_queue[BatchOf(runs[r])[i].id].status # "pending"]_vars

\* a request for a sub-batch of two entries has been dispatched and answered
C20_Witness ==
  \E r \in RunIds :
    /\ runs[r].pc = "save"
    /\ Len(BatchOf(runs[r])) = 2
    /\ Len(runs[r].results) = 2
    /\ \A i \in DOMAIN BatchOf(runs[r]) :
         processing_queue[BatchOf(runs[r])[i].id].status = "processing"

\* C14: whatever the model returned, the stock_exchange of every result the
\* batch analyzer hands to the save step, and of the processed_news row made
\* of it, is null or one of NYSE, NASDAQ, OTC, AMEX
C14_ExchangeInEnum ==
  aPc = "done" =>
    \A i \in DOMAIN aResults :
      ~SkipsPersistence(aResults[i]) =>
        NewsRow(aResults[i]).stock_exchange
          \in {Null, Str(L.NYSE), Str(L.NASDAQ), Str(L.OTC), Str(L.AMEX)}

\* C4 (as stated): no source-native id has more than one announcement row.
C4_OneRowPerNativeId ==
  \A n \in IngestIds : Cardinality(RowsWith(n)) <= 1

\* the runs that have marked queue entry q processing and not yet finished the
\* sub-batch it is in
RunsHolding(q) ==
  {r \in RunIds : /\ runs[r].pc \in {"call", "save"}
                  /\ \E i \in DOMAIN BatchOf(runs[r]) : BatchOf(runs[r])[i].id = q}

\* C5 (as stated): at most one run at a time has a queue entry marked
\* processing and sent to the model.
C5_OneRunPerEntry ==
  \A q \in DOMAIN processing_queue : Cardinality(RunsHolding(q)) <= 1

\* the array the analyzer extracts from a response, <<>> when there is none
ExtractedArray(response) ==
  IF response.kind # "text" THEN Fail
  ELSE LET clean == StripFences(response.text)
           parsed == JSONparse(IF MatchArray(clean) # <<>> THEN MatchArray(clean) ELSE clean)
       IN IF parsed.ok /\ parsed.v.t = "array" THEN parsed ELSE Fail

Fallbacks ==
  [i \in DOMAIN aBatch |->
     IF pipeline = "fda" THEN getFallbackAnalysis(aBatch[i]) ELSE getSECFallbackAnalysis(aBatch[i])]

SameClassification(a, b) ==
  /\ a.relevance_score = b.relevance_score
  /\ a.priority_level = b.priority_level
  /\ a.sentiment = b.sentiment
  /\ a.sentiment_strength = b.sentiment_strength

\* C6: for every response that parses to an array, shorter than, as long as or
\* longer than the sub-batch, the analyzer returns one result per input entry;
\* a position the array does not supply has the fallback classification of that
\* position's announcement, and a supplied position with a score in 0..100
\* keeps that score unless the whole sub-batch fell back.
C6_OneResultPerInput ==
  (aPc = "done" /\ ExtractedArray(aResponse).ok) =>
    LET supplied == ExtractedArray(aResponse).v.a
    IN /\ Len(aResults) = Len(aBatch)
       /\ \A i \in DOMAIN aBatch :
            /\ i > Len(supplied) => SameClassification(aResults[i], Fallbacks[i])
            /\ (/\ i <= Len(supplied)
                /\ Get(supplied[i], "relevance_score").t = "number"
                /\ Get(supplied[i], "relevance_score").n \in 0..100)
               => \/ aResults[i].relevance_score = Get(supplied[i], "relevance_score").n
                  \/ \A j \in DOMAIN aBatch : SameClassification(aResults[j], Fallbacks[j])

\* C6's case: a one-element array answered a sub-batch of two; the first result
\* is the model's, the second the fallback of the second announcement.
C6_Witness ==
  /\ aPc = "done"
  /\ ExtractedArray(aResponse).ok
  /\ Len(ExtractedArray(aResponse).v.a) = 1
  /\ Len(aBatch) = 2
  /\ Len(aResults) = 2
  /\ aResults[1].relevance_score = 40
  /\ SameClassification(aResults[2], Fallbacks[2])
  /\ ~SameClassification(aResults[1], Fallbacks[1])

\* a response that is not a JSON array: the call threw, or the text is valid
\* JSON with another top level, or it is no JSON and holds no JSON array
BadResponse(response) ==
  \/ response.kind = "throw"
  \/ /\ response.kind = "text"
     /\ LET whole == JSONparse(StripFences(response.text))
        IN \/ whole.ok /\ whole.v.t # "array"
           \/ ~whole.ok /\ ~ExtractedArray(response).ok

\* C7 (as stated): after a response that is not a JSON array, every entry of
\* the sub-batch has its fallback classification.
C7_BadResponseAllFallback ==
  (aPc = "done" /\ BadResponse(aResponse)) =>
    /\ Len(aResults) = Len(aBatch)
    /\ \A i \in DOMAIN aBatch : SameClassification(aResults[i], Fallbacks[i])

Recognized(route) ==
  CASE route = "fda-feed" -> {"24h", "1w", "1m"}
    [] route = "sec-feed" -> {"1min", "10min", "1h"}
    [] route = "news" -> {"24h", "1w", "1m", "all"}
    [] route = "news-route" -> {"24h", "1w", "1m", "3m"}
    [] route = "first-news" -> {"1h", "24h", "3d", "1w"}
    [] route = "sec-news" -> {"1min", "10min", "1h", "6h", "24h"}

C10_RetainedIffAfterCutoff ==
  (tPc = "done" /\ tOut.route \in {"fda-feed", "sec-feed"}) =>
    /\ \A i \in DOMAIN tEntries :
         tEntries[i].k = "date" =>
           ((\E j \in DOMAIN tOut.kept : tOut.kept[j] = i) <=> tEntries[i].t > tOut.cutoff)
    /\ \A j, k \in DOMAIN tOut.kept : j < k => tOut.kept[j] < tOut.kept[k]
    /\ (tOut.route = "fda-feed" /\ tOut.timeframe = "24h") =>
         \A i \in DOMAIN tEntries :
           /\ tEntries[i] = At(tNow - 120) => \E j \in DOMAIN tOut.kept : tOut.kept[j] = i
           /\ tEntries[i] = At(tNow - 1800) => \A j \in DOMAIN tOut.kept : tOut.kept[j] # i
           /\ tEntries[i] = At(tNow - 1440) => \A j \in DOMAIN tOut.kept : tOut.kept[j] # i

\* C10's case: the FDA feed route, asked for 24h, was given an entry exactly 24
\* hours old and one 2 hours old, and kept the second only.
C10_Witness ==
  /\ tPc = "done"
  /\ tOut.route = "fda-feed"
  /\ tParam = "24h"
  /\ tEntries = <<At(tNow - 1440), At(tNow - 120)>>
  /\ tOut.kept = <<2>>

(***************************************************************************)
(* The feed routes.                                                        *)
(***************************************************************************)
\* the upstream entries of the feeds that answered request e with a document
ServedEntries(e) ==
  UNION {Range(e.upstream[f].items) : f \in {g \in DOMAIN e.upstream : e.upstream[g].k = "ok"}}

\* the links of the entries the response to e carries
ReturnedLinks(e) == {e.response.data[i].link : i \in DOMAIN e.response.data}

\* C11: the FDA feed route never answers with an error because a feed failed,
\* and its data are the in-window entries of the feeds that succeeded, each
\* once: nothing from elsewhere or from before the cutoff, and, unless the
\* limit parameter cuts the list, every served entry dated after the cutoff
C11_FeedsIndependent ==
  \A n \in DOMAIN fLog :
    LET e == fLog[n]
        cutoffTime == e.response.cutoff_time
        dated == {x \in ServedEntries(e) : x.pubDate.k = "date"}
        inWindow == {x.link : x \in {y \in dated : y.pubDate.t > cutoffTime}}
        tooOld == {x.link : x \in {y \in dated : y.pubDate.t <= cutoffTime}}
    IN e.route = "fda" =>
         /\ e.response.success
         /\ e.response.status = 200
         /\ ReturnedLinks(e) \subseteq {x.link : x \in ServedEntries(e)} \ tooOld
         /\ Len(e.response.data) = Cardinality(ReturnedLinks(e))
         /\ e.limit = <<>> => inWindow \subseteq ReturnedLinks(e)
         /\ inWindow # {} => ReturnedLinks(e) # {}

\* an FDA request that met one failed feed and one feed with an in-window entry
C11_Witness ==
  \E n \in DOMAIN fLog :
    /\ fLog[n].route = "fda"
    /\ fLog[n].upstream[1].k = "timeout"
    /\ fLog[n].upstream[2].k = "ok"
    /\ fLog[n].response.success
    /\ ReturnedLinks(fLog[n]) = {"e3"}

\* C12: a request whose every upstream fetch failed (status or connection) is
\* answered with an error or with a non-empty errors list, not with the
\* success a reachable feed without recent entries gets
C12_FetchFailureDistinct ==
  \A n \in DOMAIN fLog :
    LET e == fLog[n]
    IN (\A f \in DOMAIN e.upstream : e.upstream[f].k \in {"non2xx", "timeout"})
         => \/ ~e.response.success
            \/ /\ "errors" \in DOMAIN e.response
               /\ e.response.errors # <<>>

\* C13: an upstream entry served to two requests of a route is given the same
\* id by both
C13_StableIds ==
  \A m, n \in DOMAIN fLog :
    (fLog[m].route = fLog[n].route /\ fLog[m].response.success /\ fLog[n].response.success)
      => \A i \in DOMAIN fLog[m].response.data, j \in DOMAIN fLog[n].response.data :
           fLog[m].response.data[i].link = fLog[n].response.data[j].link
             => fLog[m].response.data[i].id = fLog[n].response.data[j].id

\* C17: an FDA entry lacking its title or its pubDate is kept (when no limit
\* parameter cuts the list): the response carries it, with the placeholder
\* title if the title is missing, and dated at the request if the pubDate is
\* missing; an entry dated before the cutoff is not concerned
C17_MissingFieldsKept ==
  \A n \in DOMAIN fLog :
    LET e == fLog[n]
    IN (e.route = "fda" /\ e.limit = <<>>) =>
         \A x \in ServedEntries(e) :
           ( /\ x.title = Undef \/ x.pubDate = NoDate
             /\ x.pubDate.k = "date" => x.pubDate.t > e.response.cutoff_time )
             => \E i \in DOMAIN e.response.data :
                  /\ e.response.data[i].link = x.link
                  /\ x.title = Undef => e.response.data[i].title = Str(L.fda_announcement)
                  /\ x.pubDate = NoDate => e.response.data[i].pub_date_full = e.now

(***************************************************************************)
(* Failures, sub-batches and repeated runs.                                *)
(***************************************************************************)
\* C21: each time a run records a failure of an entry, the entry is left
\* failed with the error text, and its retry_count is one more than before
C21_FailureCounted ==
  [][\A r \in RunIds : \A i \in DOMAIN runs[r].save :
       (runs[r].save[i] = "failed_read" /\ runs'[r].save[i] = "done")
         => LET q == BatchOf(runs[r])[i].id
            IN /\ processing_queue'[q].status = "failed"
               /\ processing_queue'[q].error_message # <<>>
               /\ processing_queue'[q].retry_count = processing_queue[q].retry_count + 1]_vars
(***************************************************************************)
(* SpecRun: the runs of one worker, one after another, over a queue long   *)
(* enough for a run to have more than one sub-batch.                       *)
(***************************************************************************)
MaxRunQueue == 3

InitRun ==
  /\ pipeline \in {"fda", "sec"}
  /\ uniqueNativeId = TRUE
  /\ judgedPrivate = {}
  /\ leftOut = {}
  /\ today = 0
  /\ \E n \in 1..MaxRunQueue :
       /\ announcements = Ingested(pipeline, n)
       /\ processing_queue = [k \in 1..n |->
                                [announcement_id |-> UUID(k), source_id |-> SourceId,
                                 status |-> "pending", retry_count |-> 0, error_message |-> <<>>]]
  /\ processed_news = <<>>
  /\ ingestTasks = <<>>
  /\ runs = [r \in RunIds |-> IdleRun]
  /\ runStarts = 0
  /\ Idle

NextRun ==
  \/ RunSelect(1)
  \/ RunMark(1)
  \/ RunMarkThrows(1)
  \/ RunCall(1)
  \/ \E i \in DOMAIN runs[1].save : SaveStart(1, i)
  \/ \E i \in DOMAIN runs[1].save : SaveComplete(1, i)
  \/ \E i \in DOMAIN runs[1].save : SaveFailRead(1, i)
  \/ \E i \in DOMAIN runs[1].save : SaveFailWrite(1, i)
  \/ RunNext(1)
  \/ Tick

SpecRun == InitRun /\ [][NextRun]_vars

\* the status of the queue entry of the i-th selected item of run r
StatusOf(r, i) == processing_queue[runs[r].items[i].id].status

\* run r has returned its response for a non-empty selection
RunEnded(r) == runs[r].pc = "idle" /\ runs[r].items # <<>>

\* C22: when a run has ended, every entry it selected is completed or failed
\* (none pending or processing) and was counted as processed or failed, whatever
\* failed in an earlier sub-batch
C22_RunSettlesEverySelected ==
  \A r \in RunIds :
    RunEnded(r) =>
      /\ \A i \in DOMAIN runs[r].items : StatusOf(r, i) \in {"completed", "failed"}
      /\ runs[r].processed + runs[r].failed = Len(runs[r].items)

\* a run ended whose first sub-batch had a failed entry and whose second
\* sub-batch was completed after it
C22_Witness ==
  /\ RunEnded(1)
  /\ Len(runs[1].items) = 3
  /\ StatusOf(1, 1) = "failed"
  /\ StatusOf(1, 3) = "completed"
  /\ processed_news # <<>>

\* C23: a run handles its selection in selection order in consecutive
\* sub-batches of at most BATCH_SIZE entries, one after another: while it is at
\* a sub-batch, every entry of the earlier sub-batches is completed or failed,
\* no entry of a later sub-batch has been marked, and at most BATCH_SIZE
\* entries are processing
C23_SubBatchesInTurn ==
  LET run == runs[1]
      last == Min(run.at + BATCH_SIZE - 1, Len(run.items))
  IN run.pc \in {"mark", "call", "save"} =>
       /\ \A i, j \in DOMAIN run.items : i < j => run.items[i].id < run.items[j].id
       /\ run.at % BATCH_SIZE = 1
       /\ run.at <= Len(run.items)
       /\ BatchOf(run) = [k \in 1..(last - run.at + 1) |-> run.items[run.at + k - 1]]
       /\ Len(BatchOf(run)) \in 1..BATCH_SIZE
       /\ \A i \in 1..(run.at - 1) : StatusOf(1, i) \in {"completed", "failed"}
       /\ \A i \in (last + 1)..Len(run.items) : StatusOf(1, i) = "pending"
       /\ Cardinality({q \in DOMAIN processing_queue :
                         processing_queue[q].status = "processing"}) <= BATCH_SIZE

\* the run is at its second sub-batch, marked, after a first one of two entries
C23_Witness ==
  /\ runs[1].pc = "save"
  /\ runs[1].at = 1 + BATCH_SIZE
  /\ Len(runs[1].items) = 3
  /\ StatusOf(1, 3) = "processing"
  /\ StatusOf(1, 1) = "completed"
  /\ StatusOf(1, 2) = "failed"

\* the column of processed_news that references the announcement / the filing
RefField == IF pipeline = "fda" THEN "fda_announcement_id" ELSE "sec_filing_id"

\* C26: every processed_news row written for an entry of a sub-batch references
\* that entry's own announcement, whatever the model's response holds
C26_RowReferencesOwnAnnouncement ==
  aPc = "done" =>
    \A i \in DOMAIN aResults :
      ~SkipsPersistence(aResults[i]) => NewsRow(aResults[i])[RefField] = Str(aBatch[i].id)

\* the model call failed, or its text is no JSON and holds no JSON array
FailedOrUnparseable(response) ==
  \/ response.kind = "throw"
  \/ /\ response.kind = "text"
     /\ ~JSONparse(StripFences(response.text)).ok
     /\ ~ExtractedArray(response).ok

RunCrash(r) ==
  /\ runs[r].pc \in {"mark", "call", "save"}
  /\ runs' = [runs EXCEPT ![r] = IdleRun]
  /\ UNCHANGED <<pipeline, uniqueNativeId, judgedPrivate, leftOut, today, announcements, processing_queue,
                 processed_news, ingestTasks, runStarts>>
  /\ UNCHANGED <<analyzeVars, timeVars, feedVars, subtypeVars, cronVars>>

\* the next period of the schedule begins
Period ==
  /\ runStarts = MaxRunStarts
  /\ runStarts' = 0
  /\ UNCHANGED <<pipeline, uniqueNativeId, judgedPrivate, leftOut, today, announcements, processing_queue,
                 processed_news, ingestTasks, runs>>
  /\ UNCHANGED <<analyzeVars, timeVars, feedVars, subtypeVars, cronVars>>

RunStep ==
  \/ RunSelect(1)
  \/ RunMark(1)
  \/ RunCall(1)
  \/ \E i \in DOMAIN runs[1].save : SaveStart(1, i)
  \/ \E i \in DOMAIN runs[1].save : SaveComplete(1, i)
  \/ \E i \in DOMAIN runs[1].save : SaveFailRead(1, i)
  \/ \E i \in DOMAIN runs[1].save : SaveFailWrite(1, i)
  \/ RunNext(1)
  \/ Period

NextLive ==
  \/ RunStep
  \/ RunMarkThrows(1)
  \/ RunCrash(1)
  \/ Tick

SpecLive == InitRun /\ [][NextLive]_vars /\ WF_vars(RunStep)

\* the queue has an entry q, in the given status
HasStatus(q, status) == q \in DOMAIN processing_queue /\ processing_queue[q].status = status

\* C25: under continued periodic runs, every entry that is processing
\* eventually leaves that status, also when the run that marked it has died
C25_ProcessingEventuallyLeft ==
  \A q \in 1..MaxRunQueue :
    HasStatus(q, "processing") ~> ~HasStatus(q, "processing")

\* the schedule with no process dying and no marking step throwing
NextRepeat ==
  \/ RunStep
  \/ Tick

SpecRepeat == InitRun /\ [][NextRepeat]_vars /\ WF_vars(RunStep)

\* C27: under continued periodic runs, every pending entry is eventually
\* selected and marked
C27_PendingEventuallySelected ==
  \A q \in 1..MaxRunQueue :
    HasStatus(q, "pending") ~> ~HasStatus(q, "pending")

(***************************************************************************)
(* SpecSubtype: one entry taken from its form type or announcement type to *)
(* its subtype and to the fallback classification of that subtype.         *)
(***************************************************************************)
\* form types of SEC filings
SampleForms ==
  { <<"8","-","K">>, <<"4">>, <<"4","/","A">>, <<"S","-","1">>, <<"S","-","3">>, <<"S","-","4">>,
    <<"1","0","-","Q">>, <<"1","0","-","K">>, <<"D","E","F"," ","1","4","A">>,
    <<"4","2","4","B","2">>, <<"S","C"," ","1","3","D">>, <<>> }

\* title and summary of a filing
SampleContents ==
  { <<>>, <<"M","e","r","g","e","r"," ","a","g","r","e","e","m","e","n","t">>,
    <<"N","e","w"," ","C","E","O">> }

\* announcement types of FDA announcements
SampleTypes == {L.drug_approval, L.safety_alert, L.device_approval, L.regulatory}

InitSubtype ==
  /\ pipeline \in {"fda", "sec"}
  /\ uniqueNativeId = TRUE
  /\ judgedPrivate = {}
  /\ leftOut = {}
  /\ today = 0
  /\ announcements = <<>> /\ processing_queue = <<>> /\ processed_news = <<>>
  /\ ingestTasks = <<>>
  /\ runs = [r \in RunIds |-> IdleRun]
  /\ runStarts = 0
  /\ aBatch = <<>> /\ aResponse = Thrown /\ aResults = <<>> /\ aPc = "off"
  /\ tNow = 0 /\ tParam = "" /\ tEntries = <<>> /\ tOut = <<>> /\ tPc = "off"
  /\ fNow = 0 /\ fLog = <<>>
  /\ cEntry \in IF pipeline = "fda"
                  THEN {[id |-> UUID(1), announcement_type |-> t] : t \in SampleTypes}
                  ELSE {[id |-> UUID(1), form_type |-> f, content |-> c, ticker |-> k] :
                          f \in SampleForms, c \in SampleContents, k \in {Null, Str(L.aapl)}}
  /\ cRow = <<>>
  /\ cResult = <<>>
  /\ cPc = "entry"
  /\ IdleCron

\* the feed route's categorizeFilingType and determinePriority of an entry, kept
\* in the sec_filings row
CategorizeSEC ==
  /\ pipeline = "sec" /\ cPc = "entry"
  /\ LET filingType == categorizeFilingType(cEntry.form_type, cEntry.content)
     IN cRow' = [id |-> cEntry.id, form_type |-> cEntry.form_type, filing_type |-> filingType,
                 priority |-> Str(determinePriority(cEntry.form_type, filingType)),
                 ticker |-> cEntry.ticker]
  /\ cPc' = "row"
  /\ UNCHANGED <<pipelineVars, analyzeVars, timeVars, feedVars, cEntry, cResult, cronVars>>

\* getSECFallbackAnalysis of the row
FallbackSEC ==
  /\ pipeline = "sec" /\ cPc = "row"
  /\ cResult' = getSECFallbackAnalysis(cRow)
  /\ cPc' = "done"
  /\ UNCHANGED <<pipelineVars, analyzeVars, timeVars, feedVars, cEntry, cRow, cronVars>>

\* getFallbackAnalysis of the announcement
FallbackFDA ==
  /\ pipeline = "fda" /\ cPc = "entry"
  /\ cRow' = cEntry
  /\ cResult' = getFallbackAnalysis(cEntry)
  /\ cPc' = "done"
  /\ UNCHANGED <<pipelineVars, analyzeVars, timeVars, feedVars, cEntry, cronVars>>

NextSubtype == CategorizeSEC \/ FallbackSEC \/ FallbackFDA

SpecSubtype == InitSubtype /\ [][NextSubtype]_vars

\* C30: only the ownership forms 4 and 4/A are categorized insider_trading, and
\* form DEF 14A is categorized proxy_statement
C30_InsiderOnlyForm4 ==
  (pipeline = "sec" /\ cPc \in {"row", "done"}) =>
    /\ cRow.filing_type = L.insider_trading => cEntry.form_type \in {<<"4">>, <<"4","/","A">>}
    /\ cEntry.form_type = <<"D","E","F"," ","1","4","A">> => cRow.filing_type = L.proxy_statement

\* the subtype of the row at hand
SubtypeOf(row) == IF pipeline = "fda" THEN row.announcement_type ELSE row.filing_type

\* score, sentiment and sentiment strength of a fallback classification
ScoreAndSentiment(result) == <<result.relevance_score, result.sentiment, result.sentiment_strength>>

\* C24 (as stated): the fallback classification is the table's row of the
\* subtype: 75 high bullish/70, 80 high bearish/75, 60 medium bullish/60 for the
\* three FDA subtypes, 90 bullish/80, 85 bearish/75, 60 and 65 neutral/50 for the
\* four SEC subtypes, and for every other subtype a score in 45..50, priority
\* medium, neutral/50
C24_FallbackTableAsStated ==
  cPc = "done" =>
    LET type == SubtypeOf(cRow)
    IN CASE type = L.drug_approval ->
              ScoreAndSentiment(cResult) = <<75, L.bullish, 70>> /\ cResult.priority_level = L.high
         [] type = L.safety_alert ->
              ScoreAndSentiment(cResult) = <<80, L.bearish, 75>> /\ cResult.priority_level = L.high
         [] type = L.device_approval ->
              ScoreAndSentiment(cResult) = <<60, L.bullish, 60>> /\ cResult.priority_level = L.medium
         [] type = L.merger_acquisition -> ScoreAndSentiment(cResult) = <<90, L.bullish, 80>>
         [] type = L.stock_offering -> ScoreAndSentiment(cResult) = <<85, L.bearish, 75>>
         [] type = L.quarterly_report -> ScoreAndSentiment(cResult) = <<60, L.neutral, 50>>
         [] type = L.annual_report -> ScoreAndSentiment(cResult) = <<65, L.neutral, 50>>
         [] OTHER -> /\ cResult.relevance_score \in 45..50
                     /\ cResult.priority_level = L.medium
                     /\ cResult.sentiment = L.neutral
                     /\ cResult.sentiment_strength = 50

\* C24 (amended): score and sentiment are the stated rows, with two more rows
\* for major_event (80 neutral/50) and insider_trading (75 neutral/60) and the
\* default 50 neutral/50; the priority is the stated one for an FDA
\* announcement and the filing's own stored priority for an SEC filing
C24_FallbackTable ==
  cPc = "done" =>
    LET type == SubtypeOf(cRow)
    IN /\ ScoreAndSentiment(cResult) =
            CASE type = L.drug_approval -> <<75, L.bullish, 70>>
              [] type = L.safety_alert -> <<80, L.bearish, 75>>
              [] type = L.device_approval -> <<60, L.bullish, 60>>
              [] type = L.merger_acquisition -> <<90, L.bullish, 80>>
              [] type = L.stock_offering -> <<85, L.bearish, 75>>
              [] type = L.quarterly_report -> <<60, L.neutral, 50>>
              [] type = L.annual_report -> <<65, L.neutral, 50>>
              [] type = L.major_event -> <<80, L.neutral, 50>>
              [] type = L.insider_trading -> <<75, L.neutral, 60>>
              [] OTHER -> <<50, L.neutral, 50>>
       /\ cResult.priority_level =
            IF pipeline = "sec" THEN cRow.priority.s
            ELSE IF type \in {L.drug_approval, L.safety_alert} THEN L.high ELSE L.medium

\* the fallback of a major_event filing was computed: score 80, priority high
C24_Witness ==
  /\ cPc = "done"
  /\ pipeline = "sec"
  /\ cRow.filing_type = L.major_event
  /\ cResult.relevance_score = 80
  /\ cResult.priority_level = L.high

(***************************************************************************)
(* SpecCron: the cron process of scripts/fda-cron.js.  Node runs one       *)
(* callback at a time, so fetchFDANews runs without interruption up to its *)
(* await of the pipeline request, and again from the answer to its end.    *)
(***************************************************************************)
MaxTriggers == 6

\* if (errorCount >= 5) process.exit(1)
ErrorLimit == 5

InitCron ==
  /\ pipeline = "fda"
  /\ uniqueNativeId = TRUE
  /\ judgedPrivate = {}
  /\ leftOut = {}
  /\ today = 0
  /\ announcements = <<>> /\ processing_queue = <<>> /\ processed_news = <<>>
  /\ ingestTasks = <<>>
  /\ runs = [r \in RunIds |-> IdleRun]
  /\ runStarts = 0
  /\ Idle

\* a bug fetchFDANews could have: no test of isRunning
fetchFDANews_unguarded ==
  /\ ~exited
  /\ triggers < MaxTriggers
  /\ triggers' = triggers + 1
  /\ isRunning' = TRUE
  /\ requests' = requests + 1
  /\ sent' = sent + 1
  /\ UNCHANGED <<runCount, errorCount, exited>>

\* fetchFDANews up to its await: return when isRunning, else set it and send
\* the pipeline request
fetchFDANews ==
  /\ ~exited
  /\ triggers < MaxTriggers
  /\ triggers' = triggers + 1
  /\ IF isRunning
       THEN UNCHANGED <<isRunning, requests, sent>>
       ELSE /\ isRunning' = TRUE
            /\ requests' = requests + 1
            /\ sent' = sent + 1
  /\ UNCHANGED <<runCount, errorCount, exited>>

\* cron.schedule(config.cronSchedule, fetchFDANews)
ScheduledTick ==
  /\ fetchFDANews
  /\ UNCHANGED <<pipelineVars, analyzeVars, timeVars, feedVars, subtypeVars, startupRan>>

\* setTimeout(fetchFDANews, 5000) of main, when FDA_RUN_ON_START is set
StartupRun ==
  /\ ~startupRan
  /\ startupRan' = TRUE
  /\ fetchFDANews
  /\ UNCHANGED <<pipelineVars, analyzeVars, timeVars, feedVars, subtypeVars>>

\* manualTrigger: await fetchFDANews()
manualTrigger ==
  /\ fetchFDANews
  /\ UNCHANGED <<pipelineVars, analyzeVars, timeVars, feedVars, subtypeVars, startupRan>>

\* the request is answered with success: the try block to its end, then finally
FetchSucceeds ==
  /\ ~exited
  /\ requests > 0
  /\ requests' = requests - 1
  /\ runCount' = runCount + 1
  /\ errorCount' = 0
  /\ isRunning' = FALSE
  /\ UNCHANGED <<pipelineVars, analyzeVars, timeVars, feedVars, subtypeVars, sent, triggers, startupRan, exited>>

\* the request fails (rejected or timed out, a status that is not ok, a body
\* that is no JSON or reports no success): the catch block, which exits the
\* process at the error limit, then finally
FetchFails ==
  /\ ~exited
  /\ requests > 0
  /\ requests' = requests - 1
  /\ errorCount' = errorCount + 1
  /\ IF errorCount + 1 >= ErrorLimit
       THEN exited' = TRUE /\ UNCHANGED isRunning
       ELSE isRunning' = FALSE /\ UNCHANGED exited
  /\ UNCHANGED <<pipelineVars, analyzeVars, timeVars, feedVars, subtypeVars, runCount, sent, triggers, startupRan>>

NextCron == ScheduledTick \/ StartupRun \/ manualTrigger \/ FetchSucceeds \/ FetchFails

SpecCron == InitCron /\ [][NextCron]_vars

\* C29: at most one pipeline request is unanswered, and isRunning tells whether
\* one is; a call of fetchFDANews while isRunning sends nothing; and isRunning
\* is false after every run that returns, succeeded or failed
C29_OneRunAtATime ==
  /\ [](requests <= 1 /\ (~exited => (isRunning <=> requests = 1)))
  /\ [][/\ ((triggers' = triggers + 1 /\ isRunning)
                => (sent' = sent /\ requests' = requests /\ isRunning'))
         /\ ((requests' < requests /\ ~exited') => ~isRunning')]_vars

\* a failed run has returned, a trigger was skipped meanwhile, and a later
\* trigger has started another run
C29_Witness ==
  /\ errorCount >= 1
  /\ ~exited
  /\ triggers > sent
  /\ sent >= 2
  /\ isRunning
  /\ requests = 1

====
